---------------------------- MODULE Spec2Model ----------------------------
(***************************************************************************)
(* A model of rvflash/combine: the identity codec of an asset              *)
(* (asset.String, Box.ToAsset, basename, split, newAsset), the build       *)
(* cache of a Box (Load, LoadOrStore, Store, Delete) and the build that    *)
(* Box.Open runs on a miss (Box.append, asset.Combine).                    *)
(*                                                                         *)
(* Strings are sequences of one-character strings.  A uint32 is a pair     *)
(* <<hi, lo>> of 16-bit limbs, so that every operation keeps Go's 32-bit   *)
(* width while each intermediate value stays within TLC's integers.        *)
(***************************************************************************)
EXTENDS Integers, Sequences, FiniteSets, TLC

(***************************************************************************)
(* Bounds of the model.                                                    *)
(***************************************************************************)
\* Longest fingerprint list the codec specification encodes.
MaxLen == 3
\* Most '.'-separated components of a hash handed directly to ToAsset.
MaxComps == 3
\* Number of concurrent callers of Box.Open, each making one call.
NReq == 2
\* Longest fingerprint list of the bundle the client assembles.
MaxMedia == 2

(***************************************************************************)
(* uint32 arithmetic                                                       *)
(***************************************************************************)
Limb == 65536

U32Zero == <<0, 0>>

U32Max == <<Limb - 1, Limb - 1>>

IsU32(u) == /\ u \in Seq(0..(Limb - 1))
            /\ Len(u) = 2

\* a + b on uint32: wraps modulo 2^32.
U32Add(a, b) ==
    LET lo == a[2] + b[2]
        hi == a[1] + b[1] + (lo \div Limb)
    IN  <<hi % Limb, lo % Limb>>

\* a - b on uint32: wraps modulo 2^32.
U32Sub(a, b) ==
    LET lo == a[2] - b[2]
        borrow == IF lo < 0 THEN 1 ELSE 0
        hi == a[1] - b[1] - borrow
    IN  <<(hi + Limb) % Limb, (lo + Limb) % Limb>>

\* a > b on uint32.
U32Gt(a, b) == \/ a[1] > b[1]
               \/ a[1] = b[1] /\ a[2] > b[2]

(***************************************************************************)
(* Characters and the library string functions the code calls              *)
(***************************************************************************)
Digits == <<"0", "1", "2", "3", "4", "5", "6", "7", "8", "9">>

IsDigit(c) == \E d \in 1..10 : Digits[d] = c

DigitVal(c) == (CHOOSE d \in 1..10 : Digits[d] = c) - 1

\* The byte of each character the model's strings are written with (ASCII).
CharCode(c) ==
    CASE c = " " -> 32
      [] c = "+" -> 43
      [] c = "." -> 46
      [] c = "/" -> 47
      [] c = ":" -> 58
      [] c = "a" -> 97
      [] c = "b" -> 98
      [] c = "c" -> 99
      [] c = "d" -> 100
      [] c = "f" -> 102
      [] c = "j" -> 106
      [] c = "s" -> 115
      [] c = "u" -> 117
      [] c = "v" -> 118
      [] c = "x" -> 120
      [] OTHER   -> 48 + DigitVal(c)

\* u divided by ten: quotient (a uint32) and remainder.
DivMod10(u) ==
    LET t == (u[1] % 10) * Limb + u[2]
    IN  [q |-> <<u[1] \div 10, t \div 10>>, r |-> t % 10]

\* strconv.FormatUint(uint64(i), 10)
RECURSIVE FormatUint(_)
FormatUint(u) ==
    LET dm == DivMod10(u)
    IN  IF dm.q = U32Zero
        THEN <<Digits[dm.r + 1]>>
        ELSE FormatUint(dm.q) \o <<Digits[dm.r + 1]>>

\* strconv.ParseUint(s, 10, 32): the value, or ErrSyntax (empty, or a
\* character that is no decimal digit) or ErrRange (above 2^32 - 1).
RECURSIVE ParseDigits(_, _, _)
ParseDigits(s, i, n) ==
    IF i > Len(s) THEN [val |-> n, err |-> "nil"]
    ELSE IF ~IsDigit(s[i]) THEN [val |-> U32Zero, err |-> "ErrSyntax"]
    ELSE LET lo == n[2] * 10 + DigitVal(s[i])
             hi == n[1] * 10 + (lo \div Limb)
         IN  IF hi >= Limb
             THEN [val |-> U32Max, err |-> "ErrRange"]
             ELSE ParseDigits(s, i + 1, <<hi, lo % Limb>>)

ParseUint(s) ==
    IF Len(s) = 0
    THEN [val |-> U32Zero, err |-> "ErrSyntax"]
    ELSE ParseDigits(s, 1, U32Zero)

\* strings.HasSuffix(s, suffix)
HasSuffix(s, suffix) ==
    /\ Len(s) >= Len(suffix)
    /\ SubSeq(s, Len(s) - Len(suffix) + 1, Len(s)) = suffix

\* strings.TrimSuffix(s, suffix)
TrimSuffix(s, suffix) ==
    IF HasSuffix(s, suffix)
    THEN SubSeq(s, 1, Len(s) - Len(suffix))
    ELSE s

\* Index of the last occurrence of character c in s, 0 when there is none.
LastIndex(s, c) ==
    IF \E i \in 1..Len(s) : s[i] = c
    THEN CHOOSE i \in 1..Len(s) :
            /\ s[i] = c
            /\ \A j \in (i + 1)..Len(s) : s[j] # c
    ELSE 0

\* s without its trailing slashes.
RECURSIVE TrimSlashes(_)
TrimSlashes(s) ==
    IF Len(s) > 0 /\ s[Len(s)] = "/"
    THEN TrimSlashes(SubSeq(s, 1, Len(s) - 1))
    ELSE s

\* path.Base(name): the last element of the path; "." for the empty path
\* and "/" for a path of slashes only.
PathBase(name) ==
    IF Len(name) = 0 THEN <<".">>
    ELSE LET t == TrimSlashes(name)
             b == SubSeq(t, LastIndex(t, "/") + 1, Len(t))
         IN  IF Len(b) = 0 THEN <<"/">> ELSE b

\* path.Ext(name): the suffix beginning at the final dot of the final
\* element of the path, empty when that element has no dot.
PathExt(name) ==
    LET dot == LastIndex(name, ".")
    IN  IF dot > LastIndex(name, "/")
        THEN SubSeq(name, dot, Len(name))
        ELSE <<>>

\* strings.Split(s, "."): the pieces between the dots, one more than dots.
RECURSIVE SplitDots(_, _, _)
SplitDots(s, i, cur) ==
    IF i > Len(s) THEN <<cur>>
    ELSE IF s[i] = "." THEN <<cur>> \o SplitDots(s, i + 1, <<>>)
    ELSE SplitDots(s, i + 1, Append(cur, s[i]))

StringsSplit(s) == SplitDots(s, 1, <<>>)

(***************************************************************************)
(* Media types, errors, assets                                             *)
(***************************************************************************)
CSS == "text/css"

JavaScript == "text/javascript"

MediaTypes == {CSS, JavaScript}

Nil == "nil"

ErrUnexpectedEOF == "unexpected EOF"

ErrMime == "unknown mime type"

ErrNotFound == "not found"

\* The nil *asset.
NoAsset == [kind |-> "", media |-> <<>>, isNil |-> TRUE]

Asset(kind, media) == [kind |-> kind, media |-> media, isNil |-> FALSE]

ExtJS == <<".", "j", "s">>

ExtCSS == <<".", "c", "s", "s">>

(***************************************************************************)
(* The identity codec                                                      *)
(***************************************************************************)
\* One turn of the loop that searches the smallest key.
MinStep(min, key) ==
    IF min = U32Zero \/ U32Gt(min, key) THEN key ELSE min

RECURSIVE MinLoop(_, _, _)
MinLoop(media, i, min) ==
    IF i > Len(media) THEN min
    ELSE MinLoop(media, i + 1, MinStep(min, media[i]))

\* The smallest key as asset.String computes it, from var min uint32 (0).
SmallestKey(media) == MinLoop(media, 1, U32Zero)

\* One delta of the hash.
Delta(key, min) == U32Sub(key, min)

RECURSIVE HashLoop(_, _, _, _)
HashLoop(media, i, min, hash) ==
    IF i > Len(media) THEN hash
    ELSE HashLoop(media, i + 1, min,
                  (IF i = 1 THEN FormatUint(min) ELSE hash)
                      \o <<".">> \o FormatUint(Delta(media[i], min)))

\* The extension asset.String appends.
StringExt(kind) == IF kind = JavaScript THEN ExtJS ELSE ExtCSS

\* asset.String
assetString(a) ==
    IF Len(a.media) = 0 THEN <<>>
    ELSE HashLoop(a.media, 1, SmallestKey(a.media), <<>>) \o StringExt(a.kind)

\* toHash(name, ext)
toHash(name, ext) == TrimSuffix(PathBase(name), ext)

\* basename(name): the media type of the extension and the hash.
basename(name) ==
    LET ext == PathExt(name)
    IN  IF ext = ExtJS
        THEN [mediaType |-> JavaScript, hash |-> toHash(name, ext)]
        ELSE IF ext = ExtCSS
        THEN [mediaType |-> CSS, hash |-> toHash(name, ext)]
        ELSE [mediaType |-> "", hash |-> <<>>]

\* split(name) of combine.go: toHash is applied to the result variable hash,
\* which is still empty, not to name.
split(name) ==
    LET ext == PathExt(name)
    IN  IF ext = ExtJS
        THEN [mediaType |-> CSS, hash |-> toHash(<<>>, ext)]
        ELSE IF ext = ExtCSS
        THEN [mediaType |-> JavaScript, hash |-> toHash(<<>>, ext)]
        ELSE [mediaType |-> "", hash |-> <<>>]

\* The extension Box.newAsset returns for a media type.
newAssetExt(mediaType) ==
    IF mediaType = CSS THEN ExtJS
    ELSE IF mediaType = JavaScript THEN ExtCSS
    ELSE <<>>

\* Box.newAsset(mediaType)
newAsset(mediaType) ==
    IF mediaType \in MediaTypes
    THEN [a |-> Asset(mediaType, <<>>), ext |-> newAssetExt(mediaType),
          err |-> Nil]
    ELSE [a |-> NoAsset, ext |-> <<>>, err |-> ErrMime]

\* Mutant of NoDelta: the test forgets the minimum, len(keys) < 1.
NoDeltaOffByOne(keys) == Len(keys) < 1

\* The test of ToAsset on the number of keys: no delta behind the minimum.
NoDelta(keys) == Len(keys) - 1 < 1

\* Mutant of KeyOfDelta: the minimum is not added back.
KeyOfDeltaNoMin(i, min) == i

\* The key ToAsset stores for a parsed delta.
KeyOfDelta(i, min) == U32Add(i, min)

\* The loop of ToAsset over the keys: the media filled so far, and the
\* error of strconv.ParseUint that stopped it.
RECURSIVE KeysLoop(_, _, _, _)
KeysLoop(keys, k, min, media) ==
    IF k > Len(keys) THEN [media |-> media, err |-> Nil]
    ELSE LET p == ParseUint(keys[k])
         IN  IF p.err # Nil THEN [media |-> media, err |-> p.err]
             ELSE IF k = 1 THEN KeysLoop(keys, k + 1, p.val, media)
             ELSE KeysLoop(keys, k + 1, min,
                           [media EXCEPT ![k - 1] = KeyOfDelta(p.val, min)])

\* Mutant of ToAssetReturn: a bare return hands back the asset filled so
\* far together with the error.
ToAssetReturnPartial(kind, loop) ==
    [a |-> Asset(kind, loop.media), err |-> loop.err]

\* What ToAsset returns once the loop has ended.
ToAssetReturn(kind, loop) ==
    IF loop.err # Nil
    THEN [a |-> NoAsset, err |-> loop.err]
    ELSE [a |-> Asset(kind, loop.media), err |-> Nil]

\* Box.ToAsset(mediaType, hash)
ToAsset(mediaType, hash) ==
    LET na == newAsset(mediaType)
        keys == StringsSplit(toHash(hash, na.ext))
    IN  IF na.err # Nil THEN [a |-> NoAsset, err |-> na.err]
        ELSE IF NoDelta(keys) THEN [a |-> NoAsset, err |-> ErrUnexpectedEOF]
        ELSE ToAssetReturn(mediaType,
                 KeysLoop(keys, 1, U32Zero,
                          [i \in 1..(Len(keys) - 1) |-> U32Zero]))

(***************************************************************************)
(* Paths and tags                                                          *)
(***************************************************************************)
\* The elements of a path between its slashes.
RECURSIVE SplitSlashes(_, _, _)
SplitSlashes(s, i, cur) ==
    IF i > Len(s) THEN <<cur>>
    ELSE IF s[i] = "/" THEN <<cur>> \o SplitSlashes(s, i + 1, <<>>)
    ELSE SplitSlashes(s, i + 1, Append(cur, s[i]))

RECURSIVE JoinSlashes(_, _)
JoinSlashes(elems, i) ==
    IF i > Len(elems) THEN <<>>
    ELSE (IF i = 1 THEN <<>> ELSE <<"/">>) \o elems[i]
             \o JoinSlashes(elems, i + 1)

\* The elements that path.Clean keeps: neither empty nor "." (the paths of
\* the model hold no ".." element).
RECURSIVE KeptElems(_, _)
KeptElems(elems, i) ==
    IF i > Len(elems) THEN <<>>
    ELSE (IF elems[i] = <<>> \/ elems[i] = <<".">>
          THEN <<>> ELSE <<elems[i]>>) \o KeptElems(elems, i + 1)

\* path.Clean(s), filepath.Clean(s)
PathClean(s) ==
    LET kept == JoinSlashes(KeptElems(SplitSlashes(s, 1, <<>>), 1), 1)
    IN  IF Len(s) > 0 /\ s[1] = "/" THEN <<"/">> \o kept
        ELSE IF Len(kept) = 0 THEN <<".">>
        ELSE kept

\* The non-empty elements, which path.Join joins.
RECURSIVE NonEmpty(_, _)
NonEmpty(elems, i) ==
    IF i > Len(elems) THEN <<>>
    ELSE (IF elems[i] = <<>> THEN <<>> ELSE <<elems[i]>>)
             \o NonEmpty(elems, i + 1)

\* path.Join(elems...), filepath.Join(elems...)
PathJoin(elems) ==
    LET ne == NonEmpty(elems, 1)
    IN  IF Len(ne) = 0 THEN <<>> ELSE PathClean(JoinSlashes(ne, 1))

\* Dir.String
DirString(d) == IF d = <<>> THEN <<".">> ELSE PathClean(d)

\* asset.Path(root), for a Box whose build version is buildVersion
assetPath(a, root, buildVersion) ==
    LET name == assetString(a)
    IN  IF name = <<>> THEN <<>>
        ELSE PathJoin(<< <<"/">>, DirString(root), buildVersion, name >>)

\* htmlTag(kind, text, false)
htmlTag(kind, text) ==
    IF kind = JavaScript
    THEN <<"<script src=\"">> \o text \o <<"\"></script>">>
    ELSE <<"<link rel=\"stylesheet\" href=\"">> \o text \o <<"\">">>

\* asset.Tag(root)
assetTag(a, root, buildVersion) ==
    LET s == assetPath(a, root, buildVersion)
    IN  IF s = <<>> THEN <<>> ELSE htmlTag(a.kind, s)

(***************************************************************************)
(* crc32: the 32-bit FNV-1 hash of hash/fnv                                *)
(***************************************************************************)
\* The exclusive or of two numbers of n bits.
RECURSIVE BitXor(_, _, _)
BitXor(a, b, n) ==
    IF n = 0 THEN 0
    ELSE ((a + b) % 2) + 2 * BitXor(a \div 2, b \div 2, n - 1)

\* One byte: h = (h * 16777619) xor byte, where 16777619 = 2^24 + 403.
FnvStep(h, byte) ==
    LET lo403 == h[2] * 403
        lo == lo403 % Limb
        hi == (h[1] * 403 + (lo403 \div Limb) + (h[2] % 256) * 256) % Limb
    IN  <<hi, (lo \div 256) * 256 + BitXor(lo % 256, byte, 8)>>

RECURSIVE FnvLoop(_, _, _)
FnvLoop(buf, i, h) ==
    IF i > Len(buf) THEN h
    ELSE FnvLoop(buf, i + 1, FnvStep(h, CharCode(buf[i])))

\* crc32(buf), from the offset basis 2166136261
crc32(buf) == FnvLoop(buf, 1, <<33052, 40389>>)

(***************************************************************************)
(* State                                                                   *)
(***************************************************************************)
VARIABLES
    cin,     \* codec specification: the input, a bundle or a hash
    cout,    \* codec specification: what the last operation returned
    rawMap,  \* Box.raw.src: fingerprint -> raw
    minMap,  \* Box.min.src: crc32 of the asset's String() -> Static
    files,   \* the files of the destination directory: path -> chunks
    bundle,  \* the asset the client assembles with AddString and AddURL
    loc,     \* each caller of Box.Open: its position and its locals
    sheet,   \* asset specification: a second asset of the same Box
    cres,    \* asset specification: the last call of the client, its result
    served,  \* handler of server.go: the last request and its answer
    prim,    \* the last call of a cache primitive or of Close, its result
    locks    \* lock specification: who holds b.min and b.raw

vars == <<cin, cout, rawMap, minMap, files, bundle, loc, sheet, cres, served,
         prim, locks>>

httpVars == <<served>>

primVars == <<prim>>

lockVars == <<locks>>

sideVars == <<served, prim, locks>>

\* No primitive of the cache has been called yet.
NoPrim == [op |-> "none", key |-> NoAsset, value |-> [Link |-> <<>>, n |-> 0],
           ok |-> FALSE]

\* A sync.RWMutex nobody holds: no writer, no reader.
FreeMutex == [w |-> 0, r |-> {}]

\* b.min and b.raw as NewBox makes them.
NoLocks == [min |-> FreeMutex, raw |-> FreeMutex]

\* No request has reached the handler yet.
NoAnswered == [path |-> <<>>, panic |-> FALSE, status |-> 0, file |-> <<>>]

assetVars == <<sheet, cres>>

codecVars == <<cin, cout>>

boxVars == <<rawMap, minMap, files, bundle, loc>>

(***************************************************************************)
(* The codec specification: String, Path, Tag, basename, split and ToAsset *)
(* applied to inputs drawn from bounded sets.                              *)
(***************************************************************************)
\* Fingerprints the lists are drawn from: 0, a small one, crc32("a"), the
\* largest.
Samples == {U32Zero, <<0, 5>>, <<1292, 23934>>, U32Max}

Lists(S, n) == UNION {[1..k -> S] : k \in 0..n}

\* Components the hashes are made of: empty, numbers, the largest uint32
\* and the one above it, leading zeros, a letter, a sign.
Comps ==
    { <<>>, <<"0">>, <<"5">>, <<"0", "0", "7">>, <<"x">>, <<"+", "1">>,
      <<"4", "2", "9", "4", "9", "6", "7", "2", "9", "5">>,
      <<"4", "2", "9", "4", "9", "6", "7", "2", "9", "6">> }

RECURSIVE JoinDots(_, _)
JoinDots(comps, i) ==
    IF i > Len(comps) THEN <<>>
    ELSE (IF i = 1 THEN <<>> ELSE <<".">>) \o comps[i] \o JoinDots(comps, i + 1)

Hashes == {JoinDots(cs, 1) : cs \in Lists(Comps, MaxComps) \ {<<>>}}

Roots == {<<>>, <<"/", "s", "/">>}

BuildVersions == {<<>>, <<"1">>}

NoOut == [op |-> "none", str |-> <<>>, mediaType |-> "", hash |-> <<>>,
          a |-> NoAsset, err |-> Nil]

CodecInit ==
    /\ \/ \E k \in MediaTypes, m \in Lists(Samples, MaxLen) :
              cin = [mode |-> "bundle", a |-> Asset(k, m), hash |-> <<>>]
       \/ \E k \in MediaTypes, h \in Hashes :
              cin = [mode |-> "hash", a |-> Asset(k, <<>>), hash |-> h]
    /\ cout = NoOut
    /\ rawMap = <<>>
    /\ minMap = <<>>
    /\ files = <<>>
    /\ bundle = Asset(JavaScript, <<>>)
    /\ loc = <<>>
    /\ sheet = Asset(CSS, <<>>)
    /\ cres = <<>>
    /\ served = NoAnswered
    /\ prim = NoPrim
    /\ locks = NoLocks

\* a.String()
CodecString ==
    /\ cin.mode = "bundle"
    /\ cout' = [NoOut EXCEPT !.op = "String", !.str = assetString(cin.a)]
    /\ UNCHANGED <<cin, boxVars, assetVars, sideVars>>

\* a.Path(root)
CodecPath ==
    /\ cin.mode = "bundle"
    /\ \E root \in Roots, v \in BuildVersions :
           cout' = [NoOut EXCEPT !.op = "Path",
                                 !.str = assetPath(cin.a, root, v)]
    /\ UNCHANGED <<cin, boxVars, assetVars, sideVars>>

\* a.Tag(root)
CodecTag ==
    /\ cin.mode = "bundle"
    /\ \E root \in Roots, v \in BuildVersions :
           cout' = [NoOut EXCEPT !.op = "Tag",
                                 !.str = assetTag(cin.a, root, v)]
    /\ UNCHANGED <<cin, boxVars, assetVars, sideVars>>

\* The request path of the bundle: its Path, or "/" when it has none.
RequestPath(a, root, v) ==
    LET p == assetPath(a, root, v)
    IN  IF p = <<>> THEN <<"/">> ELSE p

\* b.ToAsset(basename(name)), the first statement of Box.Open, on the path
\* of the bundle.
CodecBasename ==
    /\ cin.mode = "bundle"
    /\ \E root \in Roots, v \in BuildVersions :
           LET b == basename(RequestPath(cin.a, root, v))
               t == ToAsset(b.mediaType, b.hash)
           IN  cout' = [NoOut EXCEPT !.op = "basename",
                                     !.mediaType = b.mediaType,
                                     !.hash = b.hash,
                                     !.a = t.a, !.err = t.err]
    /\ UNCHANGED <<cin, boxVars, assetVars, sideVars>>

\* b.ToAsset(split(name)), the first statement of Box.Open in combine.go.
CodecSplit ==
    /\ cin.mode = "bundle"
    /\ \E root \in Roots, v \in BuildVersions :
           LET b == split(RequestPath(cin.a, root, v))
               t == ToAsset(b.mediaType, b.hash)
           IN  cout' = [NoOut EXCEPT !.op = "split",
                                     !.mediaType = b.mediaType,
                                     !.hash = b.hash,
                                     !.a = t.a, !.err = t.err]
    /\ UNCHANGED <<cin, boxVars, assetVars, sideVars>>

\* b.ToAsset(mediaType, hash) on a hash given as it is.
CodecToAsset ==
    /\ cin.mode = "hash"
    /\ LET t == ToAsset(cin.a.kind, cin.hash)
       IN  cout' = [NoOut EXCEPT !.op = "ToAsset",
                                 !.mediaType = cin.a.kind,
                                 !.hash = cin.hash,
                                 !.a = t.a, !.err = t.err]
    /\ UNCHANGED <<cin, boxVars, assetVars, sideVars>>

CodecNext ==
    \/ CodecString
    \/ CodecPath
    \/ CodecTag
    \/ CodecBasename
    \/ CodecSplit
    \/ CodecToAsset

SpecCodec == CodecInit /\ [][CodecNext]_vars

NumMin(media) ==
    CHOOSE m \in {media[i] : i \in 1..Len(media)} :
        \A i \in 1..Len(media) : ~U32Gt(m, media[i])

\* C6: for every non-empty list the first component of the token of
\* asset.String is the numeric minimum m of the list, and the i-th
\* following component is f_i - m (unsigned 32-bit), in insertion order.
C6_MinimumFirst ==
    (cin.mode = "bundle" /\ Len(cin.a.media) > 0 /\ cout.op = "String") =>
        LET comps == StringsSplit(TrimSuffix(cout.str, StringExt(cin.a.kind)))
            m == NumMin(cin.a.media)
        IN  /\ Len(comps) = Len(cin.a.media) + 1
            /\ comps[1] = FormatUint(m)
            /\ \A i \in 1..Len(cin.a.media) :
                   comps[i + 1] = FormatUint(U32Sub(cin.a.media[i], m))

\* C7: a bundle with no fragment has no identity: String, Path and Tag
\* return the empty string, and ToAsset (valid media type) rejects the
\* empty token with ErrUnexpectedEOF.
C7_EmptyHasNoIdentity ==
    /\ (cin.mode = "bundle" /\ Len(cin.a.media) = 0
            /\ cout.op \in {"String", "Path", "Tag"}) => cout.str = <<>>
    /\ (cout.op = "ToAsset" /\ cout.hash = <<>>) =>
           (cout.err = ErrUnexpectedEOF /\ cout.a.isNil)

\* C8: ToAsset, given a valid media type and a token made of the minimum
\* component only (not empty, no dot), returns ErrUnexpectedEOF and no
\* asset.
C8_MinimumOnly ==
    (cout.op = "ToAsset" /\ Len(cout.hash) > 0
         /\ \A i \in 1..Len(cout.hash) : cout.hash[i] # ".") =>
        (cout.err = ErrUnexpectedEOF /\ cout.a.isNil)

\* C8 witness: ToAsset has rejected the token "5".
C8_Witness ==
    /\ cout.op = "ToAsset"
    /\ cout.hash = <<"5">>
    /\ cout.err = ErrUnexpectedEOF

\* s without its leading zeros.
RECURSIVE TrimZeros(_)
TrimZeros(s) ==
    IF Len(s) > 1 /\ s[1] = "0" THEN TrimZeros(Tail(s)) ELSE s

\* The text of 2^32 - 1.
MaxText == <<"4", "2", "9", "4", "9", "6", "7", "2", "9", "5">>

\* s is the decimal text of an unsigned integer of at most 32 bits.
IsUint32Text(s) ==
    /\ Len(s) > 0
    /\ \A i \in 1..Len(s) : IsDigit(s[i])
    /\ LET t == TrimZeros(s)
       IN  \/ Len(t) < Len(MaxText)
           \/ /\ Len(t) = Len(MaxText)
              /\ \/ t = MaxText
                 \/ \E i \in 1..Len(t) :
                        /\ DigitVal(t[i]) < DigitVal(MaxText[i])
                        /\ \A j \in 1..(i - 1) : t[j] = MaxText[j]

\* C9: ToAsset returns an error and no asset whenever a component of the
\* token is not a decimal unsigned integer or is outside the 32-bit range;
\* it never returns a partially filled list.
C9_MalformedRejected ==
    (cout.op = "ToAsset"
         /\ LET keys == StringsSplit(toHash(cout.hash,
                                            newAssetExt(cout.mediaType)))
            IN  \E k \in 1..Len(keys) : ~IsUint32Text(keys[k])) =>
        /\ cout.err # Nil
        /\ cout.a.isNil
        /\ cout.a.media = <<>>

\* C9 witness: ToAsset has parsed the minimum and a first delta of "0.5.x"
\* and has rejected the token at its last component.
C9_Witness ==
    /\ cout.op = "ToAsset"
    /\ cout.hash = <<"0", ".", "5", ".", "x">>
    /\ cout.err = "ErrSyntax"
    /\ cout.a.isNil

\* C10: the mapping between media kind and extension is the same
\* everywhere: String names a script bundle .js and a stylesheet bundle
\* .css, a path ending in .js is decoded (basename, split) as a script
\* bundle and .css as a stylesheet bundle, and newAsset gives the kind the
\* same extension.
C10_SameExtension ==
    (cin.mode = "bundle" /\ Len(cin.a.media) > 0) =>
        /\ cout.op = "String" =>
               HasSuffix(cout.str,
                         IF cin.a.kind = JavaScript THEN ExtJS ELSE ExtCSS)
        /\ cout.op \in {"basename", "split"} =>
               /\ cout.mediaType = cin.a.kind
               /\ newAsset(cout.mediaType).ext = StringExt(cin.a.kind)

(***************************************************************************)
(* The raw store and the assembly of a bundle                              *)
(***************************************************************************)
\* List of content type
fileSrc == 0

inlineSrc == 1

onlineSrc == 2

Raw(kind, buf) == [kind |-> kind, buf |-> buf]

NoRaw == [kind |-> -1, buf |-> <<>>]

\* The inline fragment and the URL fragment of the model.
InlineA == <<"a">>

UrlU == <<"u">>

\* The source directory of the Box, the name of a file it holds and the
\* name of a file it does not hold.
SrcDir == <<"s">>

FileF == <<"f">>

FileX == <<"x">>

\* The files of the source directory.
SrcFiles == {<<"s", "/", "f">>}

\* The fingerprints of the payloads of the model, computed once.
Fingerprints == [buf \in {InlineA, UrlU} \cup SrcFiles |-> crc32(buf)]

\* raw.crc
rawCrc(r) ==
    IF r.buf \in DOMAIN Fingerprints THEN Fingerprints[r.buf]
    ELSE crc32(r.buf)

\* A Go map with the entry key -> value set.
MapSet(m, key, value) ==
    [k \in DOMAIN m \cup {key} |-> IF k = key THEN value ELSE m[k]]

\* Box.storeRaw(key, value)
storeRaw(m, key, value) == MapSet(m, key, value)

\* A loadRaw whose caller takes the zero raw of a missing key for a raw.
loadRawAlways(m, key) ==
    IF key \in DOMAIN m
    THEN [value |-> m[key], ok |-> TRUE]
    ELSE [value |-> NoRaw, ok |-> TRUE]

\* Box.loadRaw(key)
loadRaw(m, key) ==
    IF key \in DOMAIN m
    THEN [value |-> m[key], ok |-> TRUE]
    ELSE [value |-> NoRaw, ok |-> FALSE]

\* strings.TrimSpace(s), for strings whose only white space is " ".
RECURSIVE TrimSpace(_)
TrimSpace(s) ==
    IF Len(s) > 0 /\ s[1] = " " THEN TrimSpace(Tail(s))
    ELSE IF Len(s) > 0 /\ s[Len(s)] = " "
    THEN TrimSpace(SubSeq(s, 1, Len(s) - 1))
    ELSE s

\* An append whose key also depends on the place of the raw in the asset.
assetAppendSalted(st, r) ==
    [media |-> Append(st.media, U32Add(rawCrc(r), <<0, Len(st.media)>>)),
     raw |-> storeRaw(st.raw, U32Add(rawCrc(r), <<0, Len(st.media)>>), r),
     err |-> Nil]

\* asset.append(r): the raw is stored under its crc, the crc is appended.
assetAppend(st, r) ==
    [media |-> Append(st.media, rawCrc(r)),
     raw |-> storeRaw(st.raw, rawCrc(r), r),
     err |-> Nil]

\* An Add that appends the empty slices too.
RECURSIVE AddAll(_, _, _)
AddAll(st, bufs, i) ==
    IF i > Len(bufs) THEN st
    ELSE AddAll(assetAppend(st, Raw(inlineSrc, bufs[i])), bufs, i + 1)

\* asset.Add(buf...)
RECURSIVE Add(_, _, _)
Add(st, bufs, i) ==
    IF i > Len(bufs) THEN st
    ELSE IF Len(bufs[i]) = 0 THEN Add(st, bufs, i + 1)
    ELSE Add(assetAppend(st, Raw(inlineSrc, bufs[i])), bufs, i + 1)

\* An os.Stat that finds every file.
osStatErrNone(name) == Nil

\* os.Stat(name): its error.
osStatErr(name) == IF name \in SrcFiles THEN Nil ELSE "ENOENT"

\* asset.AddFile(name...)
RECURSIVE AddFile(_, _, _)
AddFile(st, names, i) ==
    IF i > Len(names) THEN st
    ELSE LET file == DirString(names[i])
             name == PathJoin(<<DirString(SrcDir), file>>)
         IN  IF file = <<".">> THEN [st EXCEPT !.err = ErrUnexpectedEOF]
             ELSE IF osStatErr(name) # Nil
             THEN [st EXCEPT !.err = osStatErr(name)]
             ELSE AddFile(assetAppend(st, Raw(fileSrc, name)), names, i + 1)

\* An AddString that puts the fingerprint of a string before those the
\* asset holds.
RECURSIVE AddStringPrepends(_, _, _)
AddStringPrepends(st, strs, i) ==
    IF i > Len(strs) THEN st
    ELSE LET s == TrimSpace(strs[i])
             key == rawCrc(Raw(inlineSrc, s))
         IN  IF s = <<>> THEN AddStringPrepends(st, strs, i + 1)
             ELSE AddStringPrepends(
                      [media |-> <<key>> \o st.media,
                       raw |-> storeRaw(st.raw, key, Raw(inlineSrc, s)),
                       err |-> Nil], strs, i + 1)

\* asset.AddString(s...): st holds the media of the asset and the raw store.
RECURSIVE AddString(_, _, _)
AddString(st, strs, i) ==
    IF i > Len(strs) THEN st
    ELSE LET s == TrimSpace(strs[i])
         IN  IF s = <<>> THEN AddString(st, strs, i + 1)
             ELSE AddString(assetAppend(st, Raw(inlineSrc, s)), strs, i + 1)

\* url.Parse(rawURL) of the URLs of the model: a URL that begins with a
\* colon has no protocol scheme; any other is kept as it is by String().
UrlParse(rawURL) ==
    IF rawURL[1] = ":"
    THEN [url |-> <<>>, err |-> "missing protocol scheme"]
    ELSE [url |-> rawURL, err |-> Nil]

\* An AddURL that passes over the URL it rejects and goes on with the next,
\* keeping the error.
RECURSIVE AddURLGoesOn(_, _, _)
AddURLGoesOn(st, urls, i) ==
    IF i > Len(urls) THEN st
    ELSE LET rawURL == TrimSpace(urls[i])
             r == Raw(onlineSrc, UrlParse(rawURL).url)
         IN  IF rawURL = <<>>
             THEN AddURLGoesOn([st EXCEPT !.err = ErrUnexpectedEOF], urls,
                               i + 1)
             ELSE IF UrlParse(rawURL).err # Nil
             THEN AddURLGoesOn([st EXCEPT !.err = UrlParse(rawURL).err],
                               urls, i + 1)
             ELSE AddURLGoesOn(
                      [media |-> Append(st.media, rawCrc(r)),
                       raw |-> storeRaw(st.raw, rawCrc(r), r),
                       err |-> st.err], urls, i + 1)

\* asset.AddURL(rawURL...)
RECURSIVE AddURL(_, _, _)
AddURL(st, urls, i) ==
    IF i > Len(urls) THEN st
    ELSE LET rawURL == TrimSpace(urls[i])
         IN  IF rawURL = <<>> THEN [st EXCEPT !.err = ErrUnexpectedEOF]
             ELSE IF UrlParse(rawURL).err # Nil
             THEN [st EXCEPT !.err = UrlParse(rawURL).err]
             ELSE AddURL(assetAppend(st, Raw(onlineSrc, UrlParse(rawURL).url)),
                         urls, i + 1)

(***************************************************************************)
(* The build cache                                                         *)
(***************************************************************************)
\* &Static{}: no Link, the WaitGroup counter n at zero.
NewStatic == [Link |-> <<>>, n |-> 0]

\* The assets the requests name: a script of the inline fragment, a
\* stylesheet of the inline fragment followed by the URL fragment.
AssetA == Asset(JavaScript, <<crc32(InlineA)>>)

AssetAU == Asset(CSS, <<crc32(InlineA), crc32(UrlU)>>)

\* A script and a stylesheet of one fragment each, whose tokens
\* "17433.0.js" and "50153.0.css" have the same FNV-1 hash, 2141461894.
AssetJ == Asset(JavaScript, << <<0, 17433>> >>)

AssetC == Asset(CSS, << <<0, 50153>> >>)

\* The keys of the cache of the assets of the model, computed once.
CacheIds ==
    [a \in {AssetA, AssetAU, AssetJ, AssetC} |-> crc32(assetString(a))]

\* The key of the cache: crc32([]byte(key.String()))
CacheId(key) ==
    IF key \in DOMAIN CacheIds THEN CacheIds[key]
    ELSE crc32(assetString(key))

\* A Delete that leaves the map as it found it.
DeleteNothing(m, key) == m

\* Box.Delete(key), on the map
Delete(m, key) ==
    [k \in DOMAIN m \ {CacheId(key)} |-> m[k]]

\* Box.Load(key), on the map
Load(m, key) ==
    IF CacheId(key) \in DOMAIN m
    THEN [value |-> m[CacheId(key)], ok |-> TRUE]
    ELSE [value |-> NewStatic, ok |-> FALSE]

\* A Store of a Static whose counter is raised and that nobody lowers.
StoreInFlight(m, key, value) ==
    MapSet(m, CacheId(key), [value EXCEPT !.n = 1])

\* Box.Store(key, value), on the map
Store(m, key, value) == MapSet(m, CacheId(key), value)

\* Box.LoadOrStore(key, value) up to its Wait: what it returns and the map
\* it leaves, which is the map it found.
LoadOrStore(m, key, value) ==
    IF Load(m, key).ok
    THEN [actual |-> Load(m, key).value, loaded |-> TRUE, src |-> m]
    ELSE [actual |-> value, loaded |-> FALSE, src |-> m]

(***************************************************************************)
(* Box.Open and the build                                                  *)
(***************************************************************************)
Requesters == 1..NReq

\* The destination directory of the Box.
DstDir == <<"d">>

\* The paths requested: the two assets, a path with no delta, a path of
\* unknown extension, and a path whose first component is no number.
RequestNames ==
    { <<"/">> \o assetString(AssetA),
      <<"/">> \o assetString(AssetAU),
      <<"/", "5", ".", "j", "s">>,
      <<"/", "5", ".", "0", ".", "x">>,
      <<"/", "x", ".", "0", ".", "j", "s">> }

\* b.ToAsset(basename(name)) of the paths requested, computed once.
Decoded ==
    [name \in RequestNames |->
        ToAsset(basename(name).mediaType, basename(name).hash)]

\* A file name made of the token without its extension.
FileNameOfHash(a) ==
    PathJoin(<<DirString(DstDir), toHash(assetString(a), StringExt(a.kind))>>)

\* The file names of the assets of the model, computed once.
FileNames ==
    [a \in DOMAIN CacheIds |-> PathJoin(<<DirString(DstDir), assetString(a)>>)]

\* filepath.Join(b.dst.String(), a.String())
FileName(a) ==
    IF a \in DOMAIN FileNames THEN FileNames[a]
    ELSE PathJoin(<<DirString(DstDir), assetString(a)>>)

NoRet == [err |-> Nil, file |-> <<>>]

\* An error value of append and Combine: what errors.Cause gives, and the
\* messages Error() chains.
NoError == [cause |-> Nil, msg |-> <<>>]

ErrorOf(e) == [cause |-> e, msg |-> <<e>>]

\* errors.Wrap(err, message)
Wrap(err, message) == [cause |-> err.cause, msg |-> <<message>> \o err.msg]

IdleLoc == [pc |-> "idle", req |-> <<>>, a |-> NoAsset, name |-> <<>>,
            d |-> NewStatic, i |-> 0, err |-> NoError, ret |-> NoRet,
            loaded |-> FALSE]

\* The locals of r once Box.Open has returned ret: of the call remain the
\* name it was given, the asset it decoded, whether the cache held it, and
\* what it returned.
Returned(r, ret) ==
    [loc EXCEPT ![r] = [IdleLoc EXCEPT !.pc = "returned", !.req = loc[r].req,
                                       !.a = loc[r].a,
                                       !.loaded = loc[r].loaded,
                                       !.ret = ret]]

\* os.Open(name) on the files: the file, or the error of a missing file.
osOpen(fs, name) ==
    IF name \in DOMAIN fs
    THEN [err |-> Nil, file |-> name]
    ELSE [err |-> "ENOENT", file |-> <<>>]

\* The minified form of a content, under the minifier of a media type; the
\* minifiers accept the inline fragment of the model.
Minify(kind, content) == [m |-> kind, src |-> content]

\* A chunk that was never written: the hole before the offset of a write.
Hole == [m |-> "", src |-> <<>>]

\* A write of chunk at the offset of the writer, which has written i - 1
\* chunks since it created the file.
WriteAt(content, i, chunk) ==
    [k \in 1..(IF Len(content) > i THEN Len(content) ELSE i) |->
        IF k = i THEN chunk
        ELSE IF k <= Len(content) THEN content[k]
        ELSE Hole]

\* newMinify(mimeType): its error.
newMinifyErr(mimeType) ==
    IF mimeType \in MediaTypes THEN Nil ELSE ErrMime

\* What the HTTP client may answer: an error of Get, or a status and a
\* body the minifier accepts or not.
Responses ==
    { [err |-> "no transport", status |-> 0, ok |-> FALSE],
      [err |-> Nil, status |-> 200, ok |-> TRUE],
      [err |-> Nil, status |-> 200, ok |-> FALSE],
      [err |-> Nil, status |-> 404, ok |-> TRUE] }

\* A minifyURL that minifies the body whatever the status.
minifyURLErrAnyStatus(resp) ==
    IF resp.err # Nil THEN resp.err
    ELSE IF ~resp.ok THEN "minify error"
    ELSE Nil

\* asset.minifyURL(r, m, w): its error, for one answer of the HTTP client.
minifyURLErr(resp) ==
    IF resp.err # Nil THEN resp.err
    ELSE IF resp.status >= 400 THEN ErrNotFound
    ELSE IF ~resp.ok THEN "minify error"
    ELSE Nil

\* What os.Open of a source file and the minifier of its content may do.
Opens ==
    { [err |-> "ENOENT", status |-> 0, ok |-> FALSE],
      [err |-> Nil, status |-> 0, ok |-> TRUE],
      [err |-> Nil, status |-> 0, ok |-> FALSE] }

\* asset.minifyFile(r, m, w): its error, for one outcome of os.Open.
minifyFileErr(open) ==
    IF open.err # Nil THEN open.err
    ELSE IF ~open.ok THEN "minify error"
    ELSE Nil

\* What the minifier reads for a raw: the bytes of an inline raw, the body
\* of the answer to the URL of an online raw, the content of the file of a
\* file raw.
Resolve(r) ==
    IF r.kind = onlineSrc THEN <<"body of">> \o r.buf
    ELSE IF r.kind = fileSrc THEN <<"content of">> \o r.buf
    ELSE r.buf

\* Nothing is asked of the environment for an inline or a missing raw.
NoAnswer == [err |-> Nil, status |-> 0, ok |-> TRUE]

\* What the environment may answer when Combine resolves fragment i of a.
Answers(a, rm, i) ==
    LET l == loadRaw(rm, a.media[i])
    IN  IF l.ok /\ l.value.kind = fileSrc THEN Opens
        ELSE IF l.ok /\ l.value.kind = onlineSrc THEN Responses
        ELSE {NoAnswer}

\* The answers of the environment to a whole Combine of a, from fragment i.
RECURSIVE Envs(_, _, _)
Envs(a, rm, i) ==
    IF i > Len(a.media) THEN {<<>>}
    ELSE {<<ans>> \o rest : ans \in Answers(a, rm, i),
                            rest \in Envs(a, rm, i + 1)}

\* Fragment i of asset.Combine failed with the error message cause.
FragmentFailed(cause) ==
    [err |-> Wrap(ErrorOf(ErrNotFound), cause), chunk |-> <<>>]

\* Fragment i of asset.Combine has written the minified form of r.
FragmentWrote(kind, r) ==
    [err |-> NoError, chunk |-> <<Minify(kind, Resolve(r))>>]

\* The body of the loop of asset.Combine for fragment i of a, the
\* environment answering ans: the error it returns and what it writes.
CombineFragment(a, rm, i, ans) ==
    LET l == loadRaw(rm, a.media[i])
    IN  IF ~l.ok
        THEN [err |-> ErrorOf(ErrNotFound), chunk |-> <<>>]
        ELSE IF l.value.kind = fileSrc
        THEN IF minifyFileErr(ans) # Nil
             THEN FragmentFailed(minifyFileErr(ans))
             ELSE FragmentWrote(a.kind, l.value)
        ELSE IF l.value.kind = onlineSrc
        THEN IF minifyURLErr(ans) # Nil
             THEN FragmentFailed(minifyURLErr(ans))
             ELSE FragmentWrote(a.kind, l.value)
        ELSE FragmentWrote(a.kind, l.value)

\* A loop of Combine that writes each fragment before the ones it wrote.
RECURSIVE CombineLoopPrepends(_, _, _, _, _)
CombineLoopPrepends(a, rm, env, i, w) ==
    IF i > Len(a.media) THEN [err |-> NoError, w |-> w]
    ELSE LET s == CombineFragment(a, rm, i, env[i])
         IN  IF s.err # NoError THEN [err |-> s.err, w |-> w]
             ELSE CombineLoopPrepends(a, rm, env, i + 1, s.chunk \o w)

\* The loop of asset.Combine from fragment i on, w being what it has
\* written and env what the environment answers: the error it returns and
\* what it has written.
RECURSIVE CombineLoop(_, _, _, _, _)
CombineLoop(a, rm, env, i, w) ==
    IF i > Len(a.media) THEN [err |-> NoError, w |-> w]
    ELSE LET s == CombineFragment(a, rm, i, env[i])
         IN  IF s.err # NoError THEN [err |-> s.err, w |-> w]
             ELSE CombineLoop(a, rm, env, i + 1, w \o s.chunk)

\* asset.Combine(w)
Combine(a, rm, env) ==
    IF newMinifyErr(a.kind) # Nil
    THEN [err |-> ErrorOf(newMinifyErr(a.kind)), w |-> <<>>]
    ELSE CombineLoop(a, rm, env, 1, <<>>)

BoxInit ==
    /\ cin = [mode |-> "none", a |-> NoAsset, hash |-> <<>>]
    /\ cout = NoOut
    /\ rawMap = <<>>
    /\ minMap = <<>>
    /\ files = <<>>
    /\ bundle = Asset(JavaScript, <<>>)
    /\ loc = [r \in Requesters |-> IdleLoc]
    /\ sheet = Asset(CSS, <<>>)
    /\ cres = <<>>
    /\ served = NoAnswered
    /\ prim = NoPrim
    /\ locks = NoLocks

\* The client adds strings to its bundle.
ClientAddString ==
    /\ \E strs \in { <<InlineA>>, << <<>>, <<" ">> \o InlineA >> } :
           LET st == AddString([media |-> bundle.media, raw |-> rawMap,
                                err |-> Nil], strs, 1)
           IN  /\ Len(st.media) <= MaxMedia
               /\ bundle' = [bundle EXCEPT !.media = st.media]
               /\ rawMap' = st.raw
    /\ UNCHANGED <<sideVars, codecVars, assetVars, minMap, files, loc>>

\* The client adds URLs to its bundle.
ClientAddURL ==
    /\ \E urls \in { <<UrlU>>, <<UrlU, <<>> >>, << <<":">>, UrlU >> } :
           LET st == AddURL([media |-> bundle.media, raw |-> rawMap,
                             err |-> Nil], urls, 1)
           IN  /\ Len(st.media) <= MaxMedia
               /\ bundle' = [bundle EXCEPT !.media = st.media]
               /\ rawMap' = st.raw
    /\ UNCHANGED <<sideVars, codecVars, assetVars, minMap, files, loc>>

\* The client stores in the cache the Static of an artifact.
ClientStore ==
    /\ \E a \in {AssetA, AssetAU} :
           minMap' = Store(minMap, a, [Link |-> FileName(a), n |-> 0])
    /\ UNCHANGED <<sideVars, codecVars, assetVars, rawMap, files, bundle, loc>>

\* The client deletes an entry of the cache.
ClientDelete ==
    /\ \E a \in {AssetA, AssetAU} : minMap' = Delete(minMap, a)
    /\ UNCHANGED <<sideVars, codecVars, assetVars, rawMap, files, bundle, loc>>

\* Box.Open(name) up to the Load of LoadOrStore: the name is decoded, and
\* the cache is probed.
OpenLoad(r) ==
    /\ loc[r].pc = "idle"
    /\ \E name \in RequestNames :
           LET t == Decoded[name]
               l == LoadOrStore(minMap, t.a, NewStatic)
           IN  IF t.err # Nil
               THEN /\ loc' = [Returned(r, [err |-> "ErrNotExist",
                                                file |-> <<>>])
                                  EXCEPT ![r].req = name]
                    /\ minMap' = minMap
               ELSE /\ loc' = [loc EXCEPT
                           ![r].pc = IF l.loaded THEN "wait" ELSE "create",
                           ![r].req = name,
                           ![r].a = t.a,
                           ![r].name = FileName(t.a),
                           ![r].d = l.actual,
                           ![r].loaded = l.loaded]
                    /\ minMap' = l.src
    /\ UNCHANGED <<sideVars, codecVars, assetVars, rawMap, files, bundle>>

\* LoadOrStore, loaded: actual.Wait() returns once the counter is zero.
OpenWait(r) ==
    /\ loc[r].pc = "wait"
    /\ loc[r].d.n = 0
    /\ loc' = [loc EXCEPT ![r].pc = "hit"]
    /\ UNCHANGED <<sideVars, codecVars, assetVars, rawMap, minMap, files, bundle>>

\* Box.Open, found: return os.Open(d.Link)
OpenHit(r) ==
    /\ loc[r].pc = "hit"
    /\ loc' = Returned(r, osOpen(files, loc[r].d.Link))
    /\ UNCHANGED <<sideVars, codecVars, assetVars, rawMap, minMap, files, bundle>>

\* Box.append: dst.Add(1), then os.Create(name), which empties the file
\* or fails.
appendCreate(r) ==
    /\ loc[r].pc = "create"
    /\ \/ /\ files' = MapSet(files, loc[r].name, <<>>)
          /\ loc' = [loc EXCEPT ![r].pc = "combine", ![r].i = 1,
                                ![r].d.n = @ + 1]
       \/ /\ files' = files
          /\ loc' = [loc EXCEPT ![r].pc = "delete", ![r].err = ErrorOf("EACCES"),
                                ![r].d.n = @ + 1]
    /\ UNCHANGED <<sideVars, codecVars, assetVars, rawMap, minMap, bundle>>

\* The locals of r after fragment i of Combine has failed with err: the
\* file is closed and append goes on to Delete.
CombineFailed(r, err) ==
    [loc EXCEPT ![r].pc = "delete", ![r].err = err]

\* The locals of r and the files after fragment i of Combine has been
\* minified into the file: the next fragment, or, behind the last one, the
\* file is closed and dst.Link = name.
CombineWrote(r, chunk) ==
    /\ files' = MapSet(files, loc[r].name,
                       WriteAt(files[loc[r].name], loc[r].i, chunk[1]))
    /\ loc' = IF loc[r].i < Len(loc[r].a.media)
              THEN [loc EXCEPT ![r].i = @ + 1]
              ELSE [loc EXCEPT ![r].pc = "done", ![r].d.Link = loc[r].name]

\* One turn of the loop of asset.Combine, on the file append created.
appendCombine(r) ==
    /\ loc[r].pc = "combine"
    /\ IF newMinifyErr(loc[r].a.kind) # Nil
       THEN /\ loc' = CombineFailed(r, ErrorOf(newMinifyErr(loc[r].a.kind)))
            /\ files' = files
       ELSE \E ans \in Answers(loc[r].a, rawMap, loc[r].i) :
                LET s == CombineFragment(loc[r].a, rawMap, loc[r].i, ans)
                IN  IF s.err # NoError
                    THEN /\ loc' = CombineFailed(r, s.err)
                         /\ files' = files
                    ELSE CombineWrote(r, s.chunk)
    /\ UNCHANGED <<sideVars, codecVars, assetVars, rawMap, minMap, bundle>>

\* Box.append after createFile failed: b.Delete(src), the deferred
\* dst.Done(), and Box.Open returns os.ErrPermission.
appendDelete(r) ==
    /\ loc[r].pc = "delete"
    /\ minMap' = Delete(minMap, loc[r].a)
    /\ loc[r].d.n - 1 = 0
    /\ loc' = Returned(r, [err |-> "ErrPermission", file |-> <<>>])
    /\ UNCHANGED <<sideVars, codecVars, assetVars, rawMap, files, bundle>>

\* Box.append after createFile succeeded: the deferred dst.Done(), and
\* Box.Open returns os.Open(d.Link).
appendDone(r) ==
    /\ loc[r].pc = "done"
    /\ loc[r].d.n - 1 = 0
    /\ loc' = Returned(r, osOpen(files, loc[r].d.Link))
    /\ UNCHANGED <<sideVars, codecVars, assetVars, rawMap, minMap, files, bundle>>

\* Box.Close(): under the lock of b.min it prints the entries of the cache,
\* and returns nil.
Close ==
    /\ prim' = [op |-> "Close", key |-> NoAsset, value |-> NewStatic,
                ok |-> TRUE]
    /\ UNCHANGED <<httpVars, lockVars, codecVars, assetVars, boxVars>>

(***************************************************************************)
(* The handler of server.go, on the registry of the same maps               *)
(***************************************************************************)
\* handler.err: os.MkdirAll of FileServer succeeded, the directory exists.
handlerErr == Nil

\* split(URLPath) of server.go
splitURLPath(URLPath) ==
    LET ext == PathExt(URLPath)
    IN  IF ext = ExtJS
        THEN [mediaType |-> CSS, hash |-> TrimSuffix(PathBase(URLPath), ext)]
        ELSE IF ext = ExtCSS
        THEN [mediaType |-> JavaScript,
              hash |-> TrimSuffix(PathBase(URLPath), ext)]
        ELSE [mediaType |-> "", hash |-> <<>>]

\* What reading a field through a nil pointer yields: the goroutine panics.
NilDereference == "panic: nil pointer dereference"

\* (*Asset).Ext(): the switch reads a.kind.
Ext(a) ==
    IF a.isNil THEN NilDereference
    ELSE IF a.kind = JavaScript THEN ExtJS
    ELSE IF a.kind = CSS THEN ExtCSS
    ELSE <<>>

\* Data.ToAsset(mediaType, hash): its first statement calls a.Ext() on the
\* named result a, which nothing has assigned yet.
DataToAsset(mediaType, hash) ==
    LET ext == Ext(NoAsset)
        keys == StringsSplit(toHash(hash, ext))
        t == ToAssetReturn(mediaType,
                 KeysLoop(keys, 1, U32Zero,
                          [i \in 1..(Len(keys) - 1) |-> U32Zero]))
    IN  IF ext = NilDereference
        THEN [panic |-> TRUE, a |-> NoAsset, err |-> Nil]
        ELSE IF NoDelta(keys)
        THEN [panic |-> FALSE, a |-> NoAsset, err |-> ErrUnexpectedEOF]
        ELSE IF mediaType \notin MediaTypes
        THEN [panic |-> FALSE, a |-> NoAsset, err |-> ErrMime]
        ELSE [panic |-> FALSE, a |-> t.a, err |-> t.err]

\* What the handler has written to the ResponseWriter for URLPath.
Answered(URLPath, status, file) ==
    [path |-> URLPath, panic |-> FALSE, status |-> status, file |-> file]

\* The handler panicked before it wrote anything: net/http recovers and
\* closes the connection without an answer.
Panicked(URLPath) ==
    [path |-> URLPath, panic |-> TRUE, status |-> 0, file |-> <<>>]

\* handler.ServeHTTP(w, r) for r.URL.Path = URLPath, the environment
\* answering env to the Combine of createFile: the answer, and the cache and
\* the files it leaves.
handlerServeHTTP(URLPath, env) ==
    LET s == splitURLPath(URLPath)
        t == DataToAsset(s.mediaType, s.hash)
        l == LoadOrStore(minMap, t.a, NewStatic)
        name == PathJoin(<<DirString(DstDir), assetString(t.a)>>)
        c == Combine(t.a, rawMap, env)
        same == [min |-> minMap, files |-> files]
    IN  IF handlerErr # Nil
        THEN same @@ [answer |-> Answered(URLPath, 500, <<>>)]
        ELSE IF t.panic
        THEN same @@ [answer |-> Panicked(URLPath)]
        ELSE IF t.err # Nil
        THEN same @@ [answer |-> Answered(URLPath, 404, <<>>)]
        ELSE IF l.loaded
        THEN same @@ [answer |-> Answered(URLPath, 200, l.actual.Link)]
        ELSE IF c.err # NoError
        THEN [min |-> Delete(l.src, t.a),
              files |-> MapSet(files, name, c.w),
              answer |-> Answered(URLPath, 502, <<>>)]
        ELSE [min |-> l.src,
              files |-> MapSet(files, name, c.w),
              answer |-> Answered(URLPath, 200, name)]

\* A request reaches the handler.
ServeHTTP ==
    /\ \E URLPath \in RequestNames :
           LET t == DataToAsset(splitURLPath(URLPath).mediaType,
                                splitURLPath(URLPath).hash)
           IN  \E env \in (IF t.panic \/ t.err # Nil THEN {<<>>}
                           ELSE Envs(t.a, rawMap, 1)) :
                   /\ served' = handlerServeHTTP(URLPath, env).answer
                   /\ minMap' = handlerServeHTTP(URLPath, env).min
                   /\ files' = handlerServeHTTP(URLPath, env).files
    /\ UNCHANGED <<primVars, lockVars, codecVars, assetVars, rawMap, bundle,
                   loc>>

Next ==
    \/ ClientAddString
    \/ ClientAddURL
    \/ ClientStore
    \/ ClientDelete
    \/ \E r \in Requesters : OpenLoad(r)
    \/ \E r \in Requesters : OpenWait(r)
    \/ \E r \in Requesters : OpenHit(r)
    \/ \E r \in Requesters : appendCreate(r)
    \/ \E r \in Requesters : appendCombine(r)
    \/ \E r \in Requesters : appendDelete(r)
    \/ \E r \in Requesters : appendDone(r)
    \/ ServeHTTP
    \/ Close

Spec == BoxInit /\ [][Next]_vars

(***************************************************************************)
(* Claims on Box.Open and the build cache                                  *)
(***************************************************************************)
\* Requester r is in Box.append, between os.Create and the return of Combine.
Building(r) == loc[r].pc = "combine"

\* Requester r has returned from Box.Open with the file it built itself.
Built(r) ==
    /\ loc[r].pc = "returned"
    /\ ~loc[r].loaded
    /\ loc[r].ret.err = Nil
    /\ loc[r].ret.file # <<>>

\* C1: at no moment are two builds of the same identity in flight: two
\* requesters are never both combining into the file of the same asset.
C1_SingleBuild ==
    \A r, q \in Requesters :
        (r # q /\ Building(r) /\ Building(q)) => loc[r].a # loc[q].a

\* C2: an Open that misses the cache installs its placeholder: after the
\* step in which LoadOrStore returns loaded = false, the cache holds the
\* returned value under the key of the asset.
C2_MissInstalls ==
    [][\A r \in Requesters :
          (loc[r].pc = "idle" /\ loc'[r].pc = "create") =>
              /\ CacheId(loc'[r].a) \in DOMAIN minMap'
              /\ minMap'[CacheId(loc'[r].a)] = loc'[r].d]_vars

\* C3: once a requester has built an identity successfully, an Open of the
\* same identity that starts afterwards takes the cache-hit branch.
C3_BuiltOnce ==
    [][\A r, q \in Requesters :
          (/\ Built(q)
           /\ loc[r].pc = "idle"
           /\ loc'[r].pc \notin {"idle", "returned"}
           /\ loc'[r].a = loc[q].a) => loc'[r].pc = "wait"]_vars

\* C4: when Box.append returns from a failed build, the cache holds no
\* entry for the asset and Open returns os.ErrPermission; and an Open of an
\* asset the cache holds no entry for is granted the build, it neither
\* waits nor is served a Link.
C4_FailureIsRetryable ==
    [][\A r \in Requesters :
          /\ (loc[r].pc = "delete" /\ loc'[r].pc = "returned") =>
                 /\ CacheId(loc[r].a) \notin DOMAIN minMap'
                 /\ loc'[r].ret = [err |-> "ErrPermission", file |-> <<>>]
          /\ (/\ loc[r].pc = "idle"
              /\ loc'[r].pc \notin {"idle", "returned"}
              /\ CacheId(loc'[r].a) \notin DOMAIN minMap) =>
                 loc'[r].pc = "create"]_vars

\* A build of an asset has failed and its requester got os.ErrPermission,
\* the cache holds no entry for the asset, and another requester has been
\* granted the build of the same asset.
C4_Witness ==
    \E r, q \in Requesters :
        /\ r # q
        /\ loc[r].pc = "returned"
        /\ loc[r].ret.err = "ErrPermission"
        /\ loc[q].pc = "create"
        /\ loc[q].a = loc[r].a
        /\ CacheId(loc[r].a) \notin DOMAIN minMap

(***************************************************************************)
(* The asset specification: one client assembles two assets of the same    *)
(* Box, a script and a stylesheet, and combines them.                      *)
(***************************************************************************)
\* The arguments of the calls of the client.
ByteArgs == { <<InlineA>>, << <<>>, InlineA >>, << <<>> >> }

StringArgs ==
    { <<InlineA>>, <<UrlU>>, << <<>>, <<" ">> \o InlineA >>, << <<" ">> >>,
      <<UrlU, InlineA>> }

FileArgs ==
    { <<FileF>>, <<FileX>>, << <<>> >>, << <<".">> >>, <<FileF, FileX>>,
      <<FileX, FileF>> }

URLArgs ==
    { <<UrlU>>, << <<>> >>, << <<":">> >>, <<UrlU, <<>> >>,
      << <<" ">> \o UrlU >>, << <<":">>, UrlU >>, <<UrlU, <<":">>, UrlU>> }

Targets == {"bundle", "sheet"}

\* The asset named t.
AssetOf(t) == IF t = "bundle" THEN bundle ELSE sheet

\* What an Add method starts from: the media of the asset t, the raw store.
AddState(t) == [media |-> AssetOf(t).media, raw |-> rawMap, err |-> Nil]

NoRes == [op |-> "", t |-> "", args |-> <<>>, env |-> <<>>, err |-> Nil,
          msg |-> <<>>, w |-> <<>>]

\* The client has called Combine on the asset a, named t, the environment
\* answering env.
Combined(t, args, a, env) ==
    cres' = [NoRes EXCEPT !.op = "Combine", !.t = t, !.args = args,
                          !.env = env,
                          !.err = Combine(a, rawMap, env).err.cause,
                          !.msg = Combine(a, rawMap, env).err.msg,
                          !.w = Combine(a, rawMap, env).w]

\* The client has called op(args) on the asset t, which ended as st.
Added(t, op, args, st) ==
    /\ Len(st.media) <= MaxMedia
    /\ bundle' = IF t = "bundle" THEN [bundle EXCEPT !.media = st.media]
                 ELSE bundle
    /\ sheet' = IF t = "sheet" THEN [sheet EXCEPT !.media = st.media]
                ELSE sheet
    /\ rawMap' = st.raw
    /\ cres' = [NoRes EXCEPT !.op = op, !.t = t, !.args = args,
                             !.err = st.err]

AssetInit ==
    /\ cin = [mode |-> "none", a |-> NoAsset, hash |-> <<>>]
    /\ cout = NoOut
    /\ rawMap = <<>>
    /\ minMap = <<>>
    /\ files = <<>>
    /\ bundle = Asset(JavaScript, <<>>)
    /\ loc = <<>>
    /\ sheet = Asset(CSS, <<>>)
    /\ cres = NoRes
    /\ served = NoAnswered
    /\ prim = NoPrim
    /\ locks = NoLocks

\* a.Add(buf...)
AssetAdd ==
    /\ \E t \in Targets, bufs \in ByteArgs :
           Added(t, "Add", bufs, Add(AddState(t), bufs, 1))
    /\ UNCHANGED <<sideVars, codecVars, minMap, files, loc>>

\* a.AddFile(name...)
AssetAddFile ==
    /\ \E t \in Targets, names \in FileArgs :
           Added(t, "AddFile", names, AddFile(AddState(t), names, 1))
    /\ UNCHANGED <<sideVars, codecVars, minMap, files, loc>>

\* a.AddString(s...)
AssetAddString ==
    /\ \E t \in Targets, strs \in StringArgs :
           Added(t, "AddString", strs, AddString(AddState(t), strs, 1))
    /\ UNCHANGED <<sideVars, codecVars, minMap, files, loc>>

\* a.AddURL(rawURL...)
AssetAddURL ==
    /\ \E t \in Targets, urls \in URLArgs :
           Added(t, "AddURL", urls, AddURL(AddState(t), urls, 1))
    /\ UNCHANGED <<sideVars, codecVars, minMap, files, loc>>

\* a.Combine(w), on an empty buffer w
AssetCombine ==
    /\ \E t \in Targets : \E env \in Envs(AssetOf(t), rawMap, 1) :
           Combined(t, <<>>, AssetOf(t), env)
    /\ UNCHANGED <<sideVars, codecVars, boxVars, sheet>>

\* b.ToAsset(basename(name)) of a token whose fragments nobody added, then
\* Combine on the asset it returns.
AssetDecodeCombine ==
    /\ \E name \in {n \in RequestNames : Decoded[n].err = Nil} :
           \E env \in Envs(Decoded[name].a, rawMap, 1) :
               Combined("decoded", <<name>>, Decoded[name].a, env)
    /\ UNCHANGED <<sideVars, codecVars, boxVars, sheet>>

AssetNext ==
    \/ AssetAdd
    \/ AssetAddFile
    \/ AssetAddString
    \/ AssetAddURL
    \/ AssetCombine
    \/ AssetDecodeCombine

SpecAsset == AssetInit /\ [][AssetNext]_vars

(***************************************************************************)
(* Claims on the assembly and the combination of an asset                  *)
(***************************************************************************)
\* The asset the last Combine of the client ran on.
CombinedAsset ==
    IF cres.t = "decoded" THEN Decoded[cres.args[1]].a ELSE AssetOf(cres.t)

\* C11: when Combine returns no error, what it has written is, for the
\* fingerprints of the asset in insertion order, the minified form of what
\* each resolves to: one chunk per occurrence and nothing else.
C11_CombineInOrder ==
    (cres.op = "Combine" /\ cres.err = Nil) =>
        /\ Len(cres.w) = Len(CombinedAsset.media)
        /\ \A k \in 1..Len(cres.w) :
               /\ CombinedAsset.media[k] \in DOMAIN rawMap
               /\ cres.w[k] = Minify(CombinedAsset.kind,
                                     Resolve(rawMap[CombinedAsset.media[k]]))

\* Combine has written twice the fragment the script holds twice.
C11_Witness ==
    /\ cres.op = "Combine"
    /\ cres.err = Nil
    /\ Len(cres.w) = 2
    /\ cres.t = "bundle"
    /\ bundle.media[1] = bundle.media[2]

\* The positions of the asset whose fingerprint the raw store does not hold.
Missing(a) == {k \in 1..Len(a.media) : a.media[k] \notin DOMAIN rawMap}

\* C12: Combine on an asset that holds a fingerprint the raw store has no
\* entry for returns ErrNotFound, and has written nothing for the missing
\* fragment nor for any fragment behind it.
C12_MissingFragment ==
    (cres.op = "Combine" /\ Missing(CombinedAsset) # {}) =>
        /\ cres.err = ErrNotFound
        /\ \A k \in Missing(CombinedAsset) : Len(cres.w) < k

\* Combine, on the decoded stylesheet whose first fragment only was added,
\* has written the first fragment and returned ErrNotFound.
C12_Witness ==
    /\ cres.op = "Combine"
    /\ cres.t = "decoded"
    /\ CombinedAsset = AssetAU
    /\ Missing(CombinedAsset) = {2}
    /\ cres.err = ErrNotFound
    /\ Len(cres.w) = 1

\* Fragment k of the asset Combine ran on is a URL, and Combine got to it.
ReachedURL(k) ==
    /\ cres.op = "Combine"
    /\ k \in 1..Len(CombinedAsset.media)
    /\ CombinedAsset.media[k] \in DOMAIN rawMap
    /\ rawMap[CombinedAsset.media[k]].kind = onlineSrc
    /\ Len(cres.w) >= k - 1

\* C13: when Combine gets to a URL fragment and the answer has a status of
\* 400 or more, Combine returns ErrNotFound wrapped and has written nothing
\* for the fragment; when Get returns an error, Combine returns an error
\* (ErrNotFound wrapping the message of Get) and has written nothing for
\* the fragment either.
C13_BadAnswerFails ==
    \A k \in 1..MaxMedia + 1 :
        ReachedURL(k) =>
            /\ (cres.env[k].err = Nil /\ cres.env[k].status >= 400) =>
                   /\ cres.err = ErrNotFound
                   /\ cres.msg = <<ErrNotFound, ErrNotFound>>
                   /\ Len(cres.w) = k - 1
            /\ cres.env[k].err # Nil =>
                   /\ cres.err = ErrNotFound
                   /\ cres.msg = <<cres.env[k].err, ErrNotFound>>
                   /\ Len(cres.w) = k - 1

\* Combine has written the inline fragment of the stylesheet and failed on
\* its URL, which was answered 404.
C13_Witness ==
    /\ ReachedURL(2)
    /\ cres.t = "sheet"
    /\ cres.env[2].err = Nil
    /\ cres.env[2].status = 404
    /\ cres.err = ErrNotFound
    /\ Len(cres.w) = 1

\* The build of requester q has just failed in Combine, and the file f
\* holds the fragments before the failing one and no more.
FailedLeaving(q, f) ==
    /\ loc[q].pc = "delete"
    /\ loc[q].err.cause = ErrNotFound
    /\ loc[q].name = f
    /\ f \in DOMAIN files
    /\ Len(files[f]) = loc[q].i - 1

\* C14: a build that fails on a fragment returns ErrNotFound (wrapped, or
\* bare for a missing raw) and leaves the Link of its Static empty; and no
\* requester, here one that has built the file itself and was returned it,
\* holds the file that the failed build left with only the fragments
\* before the failing one.
C14_PartialNotPublished ==
    \A q \in Requesters :
        /\ (loc[q].pc = "delete" /\ loc[q].i > 0) =>
               /\ loc[q].err.cause = ErrNotFound
               /\ loc[q].d.Link = <<>>
        /\ \A r \in Requesters :
               Built(r) => ~FailedLeaving(q, loc[r].ret.file)

\* The arguments AddFile and AddURL must reject: the empty name and ".",
\* the file the source directory does not hold; the empty URL and the
\* URL without scheme.
Rejected(op, x) ==
    \/ op = "AddFile" /\ x \in {<<>>, <<".">>, FileX}
    \/ op = "AddURL" /\ x \in {<<>>, <<":">>}

\* The first argument of the last call that must be rejected, 0 if none.
FirstRejected(res) ==
    IF \E j \in 1..Len(res.args) : Rejected(res.op, res.args[j])
    THEN CHOOSE j \in 1..Len(res.args) :
             /\ Rejected(res.op, res.args[j])
             /\ \A i \in 1..(j - 1) : ~Rejected(res.op, res.args[i])
    ELSE 0

\* The fingerprint of an argument AddFile or AddURL accepts.
AcceptedKey(op, x) ==
    IF op = "AddFile" THEN Fingerprints[<<"s", "/">> \o x]
    ELSE Fingerprints[TrimSpace(x)]

\* The media of the asset of the call a step makes, before and after it.
MediaBefore == IF cres'.t = "bundle" THEN bundle.media ELSE sheet.media

MediaAfter == IF cres'.t = "bundle" THEN bundle'.media ELSE sheet'.media

\* C15: a call of AddFile or AddURL with an argument that must be rejected
\* returns an error, and adds to the media of the asset and to the raw
\* store the arguments before the rejected one and nothing else.
C15_RejectedNotAdded ==
    [][(cres'.op \in {"AddFile", "AddURL"} /\ FirstRejected(cres') > 0) =>
          LET j == FirstRejected(cres')
              keys == [i \in 1..(j - 1) |->
                          AcceptedKey(cres'.op, cres'.args[i])]
          IN  /\ cres'.err # Nil
              /\ MediaAfter = MediaBefore \o keys
              /\ DOMAIN rawMap' =
                     DOMAIN rawMap \cup {keys[i] : i \in 1..(j - 1)}]_vars

\* AddFile("f", "x") on the script has returned the error of os.Stat after
\* it added "f".
C15_Witness ==
    /\ cres.op = "AddFile"
    /\ cres.t = "bundle"
    /\ cres.args = <<FileF, FileX>>
    /\ cres.err = "ENOENT"
    /\ bundle.media = <<Fingerprints[<<"s", "/", "f">>]>>
    /\ DOMAIN rawMap = {Fingerprints[<<"s", "/", "f">>]}

\* The arguments Add and AddString pass over: the empty slice, the empty
\* string and the string of white space.
Blank(op, x) ==
    \/ op = "Add" /\ x = <<>>
    \/ op = "AddString" /\ x \in {<<>>, <<" ">>}

\* The fingerprints of the arguments of a call of Add or AddString that
\* are not passed over, in the order of the call.
RECURSIVE KeptKeys(_, _, _)
KeptKeys(op, args, i) ==
    IF i > Len(args) THEN <<>>
    ELSE IF Blank(op, args[i]) THEN KeptKeys(op, args, i + 1)
    ELSE <<Fingerprints[IF op = "Add" THEN args[i] ELSE TrimSpace(args[i])]>>
             \o KeptKeys(op, args, i + 1)

\* C16: a call of Add or AddString returns no error; an empty slice, an
\* empty string or a string of white space adds nothing to the media of the
\* asset nor to the raw store, and the other arguments of the call are
\* added, in order.
C16_BlankSkipped ==
    [][cres'.op \in {"Add", "AddString"} =>
          LET keys == KeptKeys(cres'.op, cres'.args, 1)
          IN  /\ cres'.err = Nil
              /\ MediaAfter = MediaBefore \o keys
              /\ DOMAIN rawMap' =
                     DOMAIN rawMap \cup {keys[i] : i \in 1..Len(keys)}]_vars

\* Add(nil, "a") on the stylesheet has added "a" only.
C16_Witness ==
    /\ cres.op = "Add"
    /\ cres.t = "sheet"
    /\ cres.args = << <<>>, InlineA >>
    /\ cres.err = Nil
    /\ sheet.media = <<Fingerprints[InlineA]>>
    /\ DOMAIN rawMap = {Fingerprints[InlineA]}

\* The bytes of the raw that a call op(x) makes of its argument x.
Payload(op, x) ==
    IF op = "AddFile" THEN <<"s", "/">> \o x
    ELSE IF op = "Add" THEN x
    ELSE TrimSpace(x)

\* The fingerprints under which the raw store holds the bytes buf.
KeysOf(buf) == {k \in DOMAIN rawMap : rawMap[k].buf = buf}

\* C17: a call that adds one payload the raw store already holds, added
\* before to this asset or to the other, appends to the media of the asset
\* the fingerprint the payload got the first time, and the raw store keeps
\* a single entry for it: its keys are those it had.
C17_SameFingerprint ==
    [][(/\ cres'.op \in {"Add", "AddFile", "AddString", "AddURL"}
        /\ Len(cres'.args) = 1
        /\ cres'.err = Nil
        /\ KeysOf(Payload(cres'.op, cres'.args[1])) # {}) =>
          /\ \E k \in KeysOf(Payload(cres'.op, cres'.args[1])) :
                 MediaAfter = Append(MediaBefore, k)
          /\ Cardinality(KeysOf(Payload(cres'.op, cres'.args[1]))) = 1
          /\ DOMAIN rawMap' = DOMAIN rawMap]_vars

\* "a" has been added once to the script and twice to the stylesheet, and
\* the raw store holds one entry.
C17_Witness ==
    /\ cres.op \in {"Add", "AddString"}
    /\ bundle.media = <<Fingerprints[InlineA]>>
    /\ sheet.media = <<Fingerprints[InlineA], Fingerprints[InlineA]>>
    /\ Cardinality(DOMAIN rawMap) = 1

\* C18: the entries of the raw store are immutable: no step removes a
\* fingerprint or changes the kind or the bytes stored under it.
C18_RawImmutable ==
    [][\A k \in DOMAIN rawMap :
          k \in DOMAIN rawMap' /\ rawMap'[k] = rawMap[k]]_vars

(***************************************************************************)
(* Claims on the naming of the file and on the answers of Box.Open         *)
(***************************************************************************)
\* The extension of the file of a kind of asset.
ExtOf(kind) == IF kind = JavaScript THEN <<".", "j", "s">>
               ELSE <<".", "c", "s", "s">>

Undecodable(name) == Decoded[name].err # Nil

\* Box.Open of r starts on an undecodable name: it returns os.ErrNotExist
\* and no file, and leaves the cache, the raws and the files as they were.
OpenNotFound(r) ==
    (loc[r].pc = "idle" /\ loc'[r].pc # "idle" /\ Undecodable(loc'[r].req)) =>
        /\ loc'[r].pc = "returned"
        /\ loc'[r].ret = [err |-> "ErrNotExist", file |-> <<>>]
        /\ UNCHANGED <<minMap, rawMap, files>>

\* Box.Open of r returns after its build failed: os.ErrPermission, no file.
OpenBuildFailed(r) ==
    (loc[r].pc = "delete" /\ loc'[r].pc = "returned") =>
        loc'[r].ret = [err |-> "ErrPermission", file |-> <<>>]

\* The handler answers a request: 404 and nothing touched for an
\* undecodable path; otherwise the file with 200 or, the build having
\* failed, 502 and no file.
HandlerAnswers ==
    (served' # served) =>
        /\ ~served'.panic
        /\ IF Undecodable(served'.path)
           THEN /\ served'.status = 404 /\ served'.file = <<>>
                /\ UNCHANGED <<minMap, rawMap, files>>
           ELSE \/ served'.status = 200 /\ served'.file \in DOMAIN files'
                \/ served'.status = 502 /\ served'.file = <<>>

\* C20: at the serving boundary a request whose path cannot be decoded into
\* a bundle is answered "not found" (os.ErrNotExist by Box.Open, 404 by the
\* handler) with the build cache, the raws and the destination directory
\* untouched, and a request whose build fails is answered os.ErrPermission
\* by Box.Open and 502 by the handler, never with a file.
C20_ServingBoundary ==
    [][/\ \A r \in Requesters : OpenNotFound(r) /\ OpenBuildFailed(r)
       /\ HandlerAnswers]_vars

(***************************************************************************)
(* Claims on concurrent requests, the locks and the cache primitives       *)
(***************************************************************************)
\* The file f holds the whole output of a build of a: one chunk for each
\* fragment, none of them a hole.
Complete(fs, f, a) ==
    /\ f \in DOMAIN fs
    /\ Len(fs[f]) = Len(a.media)
    /\ \A k \in 1..Len(fs[f]) : fs[f][k] # Hole

\* C21: a requester that is returned a file is returned the complete
\* output: at the step of its return no build of the same identity has
\* truncated the file or is still writing it. The requesters looked at are
\* those that built the file themselves.
C21_ReadersSeeComplete ==
    [][\A r \in Requesters :
          (/\ loc[r].pc # "returned"
           /\ loc'[r].pc = "returned"
           /\ ~loc'[r].loaded
           /\ loc'[r].ret.err = Nil
           /\ loc'[r].ret.file # <<>>) =>
              Complete(files', loc'[r].ret.file, loc'[r].a)]_vars

(***************************************************************************)
(* The cache specification: a client calls the primitives of the build     *)
(* cache of one Box                                                        *)
(***************************************************************************)
\* The keys the client uses.
CacheKeys == {AssetA, AssetAU, AssetJ, AssetC}

\* The tokens of the keys, computed once.
Tokens == [a \in CacheKeys |-> assetString(a)]

\* The Static of the artifact of a.
Linked(a) == [Link |-> FileName(a), n |-> 0]

\* A Static whose counter its owner has raised: Add(1), no Done yet.
InFlight == [Link |-> <<>>, n |-> 1]

\* The values the client stores: &Static{}, a Static in flight, and the
\* Static of each artifact.
CacheStatics == {NewStatic, InFlight} \cup {Linked(a) : a \in CacheKeys}

\* What a call of a primitive was given and what it returned.
Called(op, key, value, ok) ==
    [op |-> op, key |-> key, value |-> value, ok |-> ok]

\* b.Store(key, value)
CacheStore ==
    /\ \E key \in CacheKeys, value \in CacheStatics :
           /\ minMap' = Store(minMap, key, value)
           /\ prim' = Called("Store", key, value, TRUE)
    /\ UNCHANGED <<httpVars, lockVars, codecVars, assetVars, rawMap, files,
                   bundle, loc>>

\* b.Delete(key)
CacheDelete ==
    /\ \E key \in CacheKeys :
           /\ minMap' = Delete(minMap, key)
           /\ prim' = Called("Delete", key, NewStatic, TRUE)
    /\ UNCHANGED <<httpVars, lockVars, codecVars, assetVars, rawMap, files,
                   bundle, loc>>

\* value, ok = b.Load(key)
CacheLoad ==
    /\ \E key \in CacheKeys :
           prim' = Called("Load", key, Load(minMap, key).value,
                          Load(minMap, key).ok)
    /\ UNCHANGED <<httpVars, lockVars, codecVars, assetVars, boxVars>>

\* actual, loaded = b.LoadOrStore(key, value): on a hit it returns once
\* actual.Wait() does, that is once the counter of actual is zero.
CacheLoadOrStore ==
    /\ \E key \in CacheKeys, value \in {NewStatic} :
           LET l == LoadOrStore(minMap, key, value)
           IN  /\ l.loaded => l.actual.n = 0
               /\ minMap' = l.src
               /\ prim' = Called("LoadOrStore", key, l.actual, l.loaded)
    /\ UNCHANGED <<httpVars, lockVars, codecVars, assetVars, rawMap, files,
                   bundle, loc>>

\* The owner of a Static in flight calls Done on it: the cache holds the
\* pointer, so that the entry shows the counter lowered.
CacheDone ==
    /\ \E id \in DOMAIN minMap :
           /\ minMap[id].n > 0
           /\ minMap' = [minMap EXCEPT ![id].n = @ - 1]
           /\ prim' = Called("Done", NoAsset, minMap'[id], TRUE)
    /\ UNCHANGED <<httpVars, lockVars, codecVars, assetVars, rawMap, files,
                   bundle, loc>>

CacheNext ==
    \/ CacheStore
    \/ CacheDelete
    \/ CacheLoad
    \/ CacheLoadOrStore
    \/ CacheDone

SpecCache == BoxInit /\ [][CacheNext]_vars

\* C23: the cache is keyed by the token: a Store or a Delete under one
\* token leaves what Load returns for every other token as it was, so that
\* no token is served the Static of another and no Delete removes the
\* entry of another.
C23_KeyedByToken ==
    [][\A k \in CacheKeys :
          (/\ prim' # prim
           /\ prim'.op \in {"Store", "Delete"}
           /\ Tokens[prim'.key] # Tokens[k]) =>
              Load(minMap', k) = Load(minMap, k)]_vars

\* The step is a call of the primitive op.
Calls(op) == prim' # prim /\ prim'.op = op

\* C29: after Store(k, v), Load(k) returns (v, true); after Delete(k),
\* Load(k) returns (nil, false), and a Delete of an absent key changes
\* nothing; what Load(k) returns stays the same until the next Store(k, .)
\* or Delete(k); and Load returns what the map holds without changing it,
\* also while LoadOrStore waits for a Static in flight.
C29_CachePrimitives ==
    [][/\ Calls("Store") =>
              Load(minMap', prim'.key) = [value |-> prim'.value, ok |-> TRUE]
       /\ Calls("Delete") =>
              /\ Load(minMap', prim'.key) = [value |-> NewStatic, ok |-> FALSE]
              /\ ~Load(minMap, prim'.key).ok => minMap' = minMap
       /\ Calls("Load") =>
              /\ minMap' = minMap
              /\ Load(minMap, prim'.key) =
                     [value |-> prim'.value, ok |-> prim'.ok]
       /\ \A k \in CacheKeys :
              (/\ prim' # prim
               /\ prim'.op # "Done"
               /\ ~(prim'.op \in {"Store", "Delete"} /\ prim'.key = k)) =>
                  Load(minMap', k) = Load(minMap, k)
       /\ ENABLED CacheLoad]_vars

\* C28: whenever LoadOrStore returns loaded = true, the Static it returns
\* has a Link, the name of the artifact of the key.
C28_HitHasLink ==
    (prim.op = "LoadOrStore" /\ prim.ok) =>
        /\ prim.value.Link # <<>>
        /\ prim.value.Link = FileName(prim.key)

\* C24: when Close returns, none of the files this Box has built, those its
\* requesters were returned after a successful build, remains in the
\* destination directory.
C24_CloseRemovesFiles ==
    [][Calls("Close") =>
          \A r \in Requesters :
              Built(r) => loc[r].ret.file \notin DOMAIN files']_vars

(***************************************************************************)
(* The reader specification: the Asset of the Data registry, whose raws    *)
(* keep an io.Reader; one client assembles two assets and combines them    *)
(***************************************************************************)
\* &raw{kind, reader}: a reader over buf that has delivered off bytes.
ReaderRaw(kind, buf) == [kind |-> kind, buf |-> buf, off |-> 0]

\* ioutil.ReadAll(d.reader): the bytes not yet delivered, and the raw with
\* its reader at the end.
ReadAll(r) ==
    [data |-> SubSeq(r.buf, r.off + 1, Len(r.buf)),
     r |-> [r EXCEPT !.off = Len(r.buf)]]

\* raw.crc() of the Data registry: the hash of what ReadAll delivers.
readerCrc(r) ==
    IF ReadAll(r).data \in DOMAIN Fingerprints
    THEN Fingerprints[ReadAll(r).data]
    ELSE crc32(ReadAll(r).data)

\* Asset.append(r): r.crc() reads the reader of r to its end, and it is
\* this r that storeRaw keeps.
AssetAppend(st, r) ==
    [media |-> Append(st.media, readerCrc(r)),
     raw |-> storeRaw(st.raw, readerCrc(r), ReadAll(r).r),
     err |-> Nil]

\* Asset.Add(b)
AssetAddBytes(st, b) ==
    IF Len(b) = 0 THEN st ELSE AssetAppend(st, ReaderRaw(inlineSrc, b))

\* Asset.AddFile(name), with no more names
AssetAddFileName(st, n) ==
    LET file == DirString(n)
        name == PathJoin(<<DirString(SrcDir), file>>)
    IN  IF file = <<".">> THEN [st EXCEPT !.err = ErrUnexpectedEOF]
        ELSE IF osStatErr(name) # Nil THEN [st EXCEPT !.err = osStatErr(name)]
        ELSE AssetAppend(st, ReaderRaw(fileSrc, name))

\* Asset.AddString(s)
AssetAddStr(st, s) ==
    IF TrimSpace(s) = <<>> THEN st
    ELSE AssetAppend(st, ReaderRaw(inlineSrc, s))

\* Asset.AddURL(rawURL), with no more URLs
AssetAddRawURL(st, rawURL) ==
    IF TrimSpace(rawURL) = <<>> THEN [st EXCEPT !.err = ErrUnexpectedEOF]
    ELSE IF UrlParse(rawURL).err # Nil
    THEN [st EXCEPT !.err = UrlParse(rawURL).err]
    ELSE AssetAppend(st, ReaderRaw(onlineSrc, UrlParse(rawURL).url))

\* m.Minify(a.kind, w, r) on the m of Asset.Combine, which is minify.New()
\* with no minifier added: the library finds none for the media type.
NoMinifier == "minifier does not exist for mimetype"

\* What os.Open(name) may do: the empty name is no file.
OpensOf(name) ==
    IF name = <<>> THEN {[err |-> "ENOENT", status |-> 0, ok |-> FALSE]}
    ELSE Opens

\* What d.http.Get(name) may answer: the empty URL has no scheme.
ResponsesOf(name) ==
    IF name = <<>>
    THEN {[err |-> "unsupported protocol scheme", status |-> 0, ok |-> FALSE]}
    ELSE Responses

\* What the environment may answer when Asset.Combine resolves fragment i.
AssetAnswers(a, rm, i) ==
    LET l == loadRaw(rm, a.media[i])
    IN  IF l.ok /\ l.value.kind = fileSrc
        THEN OpensOf(ReadAll(l.value).data)
        ELSE IF l.ok /\ l.value.kind = onlineSrc
        THEN ResponsesOf(ReadAll(l.value).data)
        ELSE {NoAnswer}

RECURSIVE AssetEnvs(_, _, _)
AssetEnvs(a, rm, i) ==
    IF i > Len(a.media) THEN {<<>>}
    ELSE {<<ans>> \o rest : ans \in AssetAnswers(a, rm, i),
                            rest \in AssetEnvs(a, rm, i + 1)}

\* The body of the loop of Asset.Combine for fragment i: its error, and the
\* raws as the reads of their readers leave them.
AssetCombineFragment(a, rm, i, ans) ==
    LET l == loadRaw(rm, a.media[i])
        read == MapSet(rm, a.media[i], ReadAll(l.value).r)
    IN  IF ~l.ok THEN [err |-> ErrorOf(ErrNotFound), raw |-> rm]
        ELSE IF l.value.kind = fileSrc
        THEN IF ans.err # Nil
             THEN [err |-> FragmentFailed(ans.err).err, raw |-> read]
             ELSE [err |-> FragmentFailed(NoMinifier).err, raw |-> read]
        ELSE IF l.value.kind = onlineSrc
        THEN IF ans.err # Nil
             THEN [err |-> FragmentFailed(ans.err).err, raw |-> read]
             ELSE IF ans.status >= 400
             THEN [err |-> FragmentFailed(ErrNotFound).err, raw |-> read]
             ELSE [err |-> FragmentFailed(NoMinifier).err, raw |-> read]
        ELSE [err |-> FragmentFailed(NoMinifier).err, raw |-> rm]

\* Asset.Combine(w): the loop from fragment i on. Nothing reaches w.
RECURSIVE AssetCombineLoop(_, _, _, _)
AssetCombineLoop(a, rm, env, i) ==
    IF i > Len(a.media) THEN [err |-> NoError, w |-> <<>>, raw |-> rm]
    ELSE LET s == AssetCombineFragment(a, rm, i, env[i])
         IN  IF s.err # NoError
             THEN [err |-> s.err, w |-> <<>>, raw |-> s.raw]
             ELSE AssetCombineLoop(a, s.raw, env, i + 1)

\* a.Add(b)
ReaderAdd ==
    /\ \E t \in Targets, b \in {InlineA, <<>>} :
           Added(t, "Asset.Add", <<b>>, AssetAddBytes(AddState(t), b))
    /\ UNCHANGED <<sideVars, codecVars, minMap, files, loc>>

\* a.AddFile(name)
ReaderAddFile ==
    /\ \E t \in Targets, name \in {FileF, FileX, <<".">>} :
           Added(t, "Asset.AddFile", <<name>>,
                 AssetAddFileName(AddState(t), name))
    /\ UNCHANGED <<sideVars, codecVars, minMap, files, loc>>

\* a.AddString(s)
ReaderAddString ==
    /\ \E t \in Targets, s \in {InlineA, <<" ">>} :
           Added(t, "Asset.AddString", <<s>>, AssetAddStr(AddState(t), s))
    /\ UNCHANGED <<sideVars, codecVars, minMap, files, loc>>

\* a.AddURL(rawURL)
ReaderAddURL ==
    /\ \E t \in Targets, rawURL \in {UrlU, <<" ">>, <<":">>} :
           Added(t, "Asset.AddURL", <<rawURL>>,
                 AssetAddRawURL(AddState(t), rawURL))
    /\ UNCHANGED <<sideVars, codecVars, minMap, files, loc>>

\* a.Combine(w), on an empty buffer w
ReaderCombine ==
    /\ \E t \in Targets : \E env \in AssetEnvs(AssetOf(t), rawMap, 1) :
           LET c == AssetCombineLoop(AssetOf(t), rawMap, env, 1)
           IN  /\ cres' = [NoRes EXCEPT !.op = "Asset.Combine", !.t = t,
                                        !.env = env, !.err = c.err.cause,
                                        !.msg = c.err.msg, !.w = c.w]
               /\ rawMap' = c.raw
    /\ UNCHANGED <<sideVars, codecVars, minMap, files, bundle, loc, sheet>>

ReaderNext ==
    \/ ReaderAdd
    \/ ReaderAddFile
    \/ ReaderAddString
    \/ ReaderAddURL
    \/ ReaderCombine

SpecReader == AssetInit /\ [][ReaderNext]_vars

\* What Combine gives for the asset a on the raws rm, the environment
\* answering env: by asset.Combine of the Box, or by Asset.Combine of the
\* Data registry for the call op = "Asset.Combine".
CombineBy(op, a, rm, env) ==
    IF op = "Asset.Combine"
    THEN [err |-> AssetCombineLoop(a, rm, env, 1).err,
          w |-> AssetCombineLoop(a, rm, env, 1).w]
    ELSE [err |-> Combine(a, rm, env).err, w |-> Combine(a, rm, env).w]

\* The answers the environment may give to that Combine.
EnvsBy(op, a, rm) ==
    IF op = "Asset.Combine" THEN AssetEnvs(a, rm, 1) ELSE Envs(a, rm, 1)

\* Every fragment of a has its raw in rm.
Stored(a, rm) == \A k \in 1..Len(a.media) : a.media[k] \in DOMAIN rm

\* C30: a Combine, failed or not, leaves the raws and the media of the
\* assets as they were; a second Combine under the same answers of the
\* environment gives the same error and the same output; and after a
\* failed Combine whose fragments are all stored, some answers of the
\* environment make a later Combine succeed.
C30_CombineRepeatable ==
    [][(cres' # cres /\ cres'.op \in {"Combine", "Asset.Combine"}) =>
          LET a == IF cres'.t = "decoded" THEN Decoded[cres'.args[1]].a
                   ELSE AssetOf(cres'.t)
              again == CombineBy(cres'.op, a, rawMap', cres'.env)
          IN  /\ rawMap' = rawMap
              /\ bundle' = bundle
              /\ sheet' = sheet
              /\ cres'.env \in EnvsBy(cres'.op, a, rawMap')
              /\ again.err.cause = cres'.err
              /\ again.w = cres'.w
              /\ (cres'.err # Nil /\ Stored(a, rawMap')) =>
                     \E env \in EnvsBy(cres'.op, a, rawMap') :
                         CombineBy(cres'.op, a, rawMap', env).err = NoError
      ]_vars

(***************************************************************************)
(* The lock specification: Box.Open step by step, with the RWMutex of the  *)
(* cache (b.min) and of the raws (b.raw), against a client that stores     *)
(* raws and stores and deletes entries of the cache                        *)
(***************************************************************************)
\* The client, as a holder of a lock; the requesters are 1..NReq.
ClientId == NReq + 1

\* RLock() returns: no writer holds the mutex.
CanRLock(mu) == mu.w = 0

\* Lock() returns: nobody holds the mutex.
CanLock(mu) == mu.w = 0 /\ mu.r = {}

RLocked(mu, p) == [mu EXCEPT !.r = @ \cup {p}]

RUnlocked(mu, p) == [mu EXCEPT !.r = @ \ {p}]

Locked(mu, p) == [mu EXCEPT !.w = p]

Unlocked(mu) == [mu EXCEPT !.w = 0]

\* Process p holds the mutex, as a reader or as the writer.
Holds(mu, p) == mu.w = p \/ p \in mu.r

\* The locals of a caller of Box.Open: those of IdleLoc, and the raw that
\* loadRaw returned to Combine.
LockIdle ==
    [pc |-> "idle", req |-> <<>>, a |-> NoAsset, name |-> <<>>,
     d |-> NewStatic, i |-> 0, err |-> NoError, ret |-> NoRet,
     loaded |-> FALSE, raw |-> NoRaw]

LockInit ==
    /\ cin = [mode |-> "none", a |-> NoAsset, hash |-> <<>>]
    /\ cout = NoOut
    /\ rawMap = <<>>
    /\ minMap = <<>>
    /\ files = <<>>
    /\ bundle = Asset(JavaScript, <<>>)
    /\ loc = [r \in Requesters |-> LockIdle]
    /\ sheet = Asset(CSS, <<>>)
    /\ cres = <<>>
    /\ served = NoAnswered
    /\ prim = NoPrim
    /\ locks = NoLocks

\* What the lock actions leave alone.
lockFrame == <<httpVars, primVars, codecVars, assetVars, bundle>>

\* storeRaw of a fresh asset of the client: b.raw.Lock()
storeRawLock ==
    /\ ~Holds(locks.min, ClientId)
    /\ CanLock(locks.raw)
    /\ locks' = [locks EXCEPT !.raw = Locked(@, ClientId)]
    /\ UNCHANGED <<lockFrame, rawMap, minMap, files, loc>>

\* storeRaw: b.raw.src[key] = value; b.raw.Unlock()
storeRawUnlock ==
    /\ locks.raw.w = ClientId
    /\ \E r \in {Raw(inlineSrc, InlineA), Raw(onlineSrc, UrlU)} :
           rawMap' = storeRaw(rawMap, rawCrc(r), r)
    /\ locks' = [locks EXCEPT !.raw = Unlocked(@)]
    /\ UNCHANGED <<lockFrame, minMap, files, loc>>

\* Box.Store or Box.Delete of the client: b.min.Lock()
minLock ==
    /\ ~Holds(locks.raw, ClientId)
    /\ CanLock(locks.min)
    /\ locks' = [locks EXCEPT !.min = Locked(@, ClientId)]
    /\ UNCHANGED <<lockFrame, rawMap, minMap, files, loc>>

\* Box.Store: b.min.src[id] = value; b.min.Unlock()
StoreUnlock ==
    /\ locks.min.w = ClientId
    /\ \E a \in {AssetA, AssetAU} : minMap' = Store(minMap, a, Linked(a))
    /\ locks' = [locks EXCEPT !.min = Unlocked(@)]
    /\ UNCHANGED <<lockFrame, rawMap, files, loc>>

\* Box.Delete of the client: delete(b.min.src, id); b.min.Unlock()
DeleteUnlock ==
    /\ locks.min.w = ClientId
    /\ \E a \in {AssetA, AssetAU} : minMap' = Delete(minMap, a)
    /\ locks' = [locks EXCEPT !.min = Unlocked(@)]
    /\ UNCHANGED <<lockFrame, rawMap, files, loc>>

\* Box.Open(name): b.ToAsset(basename(name)), and os.ErrNotExist on its
\* error.
OpenToAsset(r) ==
    /\ loc[r].pc = "idle"
    /\ \E name \in RequestNames :
           loc' = IF Decoded[name].err # Nil
                  THEN [loc EXCEPT ![r].pc = "returned",
                                   ![r].ret = [err |-> "ErrNotExist",
                                               file |-> <<>>]]
                  ELSE [loc EXCEPT ![r].pc = "Load",
                                   ![r].a = Decoded[name].a,
                                   ![r].name = FileName(Decoded[name].a)]
    /\ UNCHANGED <<lockFrame, lockVars, rawMap, minMap, files>>

\* Box.Load: b.min.RLock()
LoadRLock(r) ==
    /\ loc[r].pc = "Load"
    /\ CanRLock(locks.min)
    /\ locks' = [locks EXCEPT !.min = RLocked(@, r)]
    /\ loc' = [loc EXCEPT ![r].pc = "Load.locked"]
    /\ UNCHANGED <<lockFrame, rawMap, minMap, files>>

\* A Load that returns with the read lock still held.
LoadKeepsLock(r) ==
    /\ loc[r].pc = "Load.locked"
    /\ locks' = locks
    /\ loc' = [loc EXCEPT
           ![r].pc = IF Load(minMap, loc[r].a).ok THEN "Wait" ELSE "Create",
           ![r].d = Load(minMap, loc[r].a).value,
           ![r].loaded = Load(minMap, loc[r].a).ok]
    /\ UNCHANGED <<lockFrame, rawMap, minMap, files>>

\* Box.Load: value, ok = b.min.src[id]; b.min.RUnlock(); and LoadOrStore
\* goes on to actual.Wait(), or returns value, false.
LoadRUnlock(r) ==
    /\ loc[r].pc = "Load.locked"
    /\ locks' = [locks EXCEPT !.min = RUnlocked(@, r)]
    /\ loc' = [loc EXCEPT
           ![r].pc = IF Load(minMap, loc[r].a).ok THEN "Wait" ELSE "Create",
           ![r].d = Load(minMap, loc[r].a).value,
           ![r].loaded = Load(minMap, loc[r].a).ok]
    /\ UNCHANGED <<lockFrame, rawMap, minMap, files>>

\* A Wait that returns only once no build at all is between its os.Create
\* and its Done.
WaitForBuilds(r) ==
    /\ loc[r].pc = "Wait"
    /\ loc[r].d.n = 0
    /\ \A p \in Requesters :
           loc[p].pc \notin {"loadRaw", "loadRaw.locked", "minify", "Link",
                             "Done"}
    /\ loc' = [loc EXCEPT ![r].pc = "returned",
                          ![r].ret = osOpen(files, loc[r].d.Link)]
    /\ UNCHANGED <<lockFrame, lockVars, rawMap, minMap, files>>

\* LoadOrStore: actual.Wait() returns, the counter is zero; Box.Open
\* returns os.Open(d.Link).
WaitReturn(r) ==
    /\ loc[r].pc = "Wait"
    /\ loc[r].d.n = 0
    /\ loc' = [loc EXCEPT ![r].pc = "returned",
                          ![r].ret = osOpen(files, loc[r].d.Link)]
    /\ UNCHANGED <<lockFrame, lockVars, rawMap, minMap, files>>

\* A createFile whose append has not raised the counter.
CreateNoAdd(r) ==
    /\ loc[r].pc = "Create"
    /\ \/ /\ files' = MapSet(files, loc[r].name, <<>>)
          /\ loc' = [loc EXCEPT ![r].pc = "loadRaw", ![r].i = 1]
       \/ /\ files' = files
          /\ loc' = [loc EXCEPT ![r].pc = "Delete",
                                ![r].err = ErrorOf("EACCES")]
    /\ UNCHANGED <<lockFrame, lockVars, rawMap, minMap>>

\* Box.append: dst.Add(1), and os.Create(name) of createFile, which
\* empties the file or fails.
Create(r) ==
    /\ loc[r].pc = "Create"
    /\ \/ /\ files' = MapSet(files, loc[r].name, <<>>)
          /\ loc' = [loc EXCEPT ![r].pc = "loadRaw", ![r].i = 1,
                                ![r].d.n = @ + 1]
       \/ /\ files' = files
          /\ loc' = [loc EXCEPT ![r].pc = "Delete",
                                ![r].err = ErrorOf("EACCES"),
                                ![r].d.n = @ + 1]
    /\ UNCHANGED <<lockFrame, lockVars, rawMap, minMap>>

\* asset.Combine, fragment i: b.raw.RLock() of loadRaw
loadRawRLock(r) ==
    /\ loc[r].pc = "loadRaw"
    /\ CanRLock(locks.raw)
    /\ locks' = [locks EXCEPT !.raw = RLocked(@, r)]
    /\ loc' = [loc EXCEPT ![r].pc = "loadRaw.locked"]
    /\ UNCHANGED <<lockFrame, rawMap, minMap, files>>

\* loadRaw: value, ok = b.raw.src[key]; b.raw.RUnlock(); Combine returns
\* ErrNotFound for a missing raw, and f.Close() is run.
loadRawRUnlock(r) ==
    /\ loc[r].pc = "loadRaw.locked"
    /\ locks' = [locks EXCEPT !.raw = RUnlocked(@, r)]
    /\ LET l == loadRaw(rawMap, loc[r].a.media[loc[r].i])
       IN  loc' = IF l.ok
                  THEN [loc EXCEPT ![r].pc = "minify", ![r].raw = l.value]
                  ELSE [loc EXCEPT ![r].pc = "Delete",
                                   ![r].err = ErrorOf(ErrNotFound)]
    /\ UNCHANGED <<lockFrame, rawMap, minMap, files>>

\* The error of minify, minifyFile or minifyURL on the raw, the
\* environment answering ans.
minifyErr(raw, ans) ==
    IF raw.kind = fileSrc THEN minifyFileErr(ans)
    ELSE IF raw.kind = onlineSrc THEN minifyURLErr(ans)
    ELSE Nil

\* asset.Combine, fragment i: the raw is resolved (os.Open, http Get),
\* minified and written to the file; behind the last fragment Combine
\* returns and f.Close() is run.
Minified(r) ==
    /\ loc[r].pc = "minify"
    /\ \E ans \in (IF loc[r].raw.kind = fileSrc THEN Opens
                   ELSE IF loc[r].raw.kind = onlineSrc THEN Responses
                   ELSE {NoAnswer}) :
           IF minifyErr(loc[r].raw, ans) # Nil
           THEN /\ loc' = [loc EXCEPT
                        ![r].pc = "Delete", ![r].raw = NoRaw,
                        ![r].err = FragmentFailed(
                                       minifyErr(loc[r].raw, ans)).err]
                /\ files' = files
           ELSE /\ files' = MapSet(files, loc[r].name,
                                   WriteAt(files[loc[r].name], loc[r].i,
                                           Minify(loc[r].a.kind,
                                                  Resolve(loc[r].raw))))
                /\ loc' = IF loc[r].i < Len(loc[r].a.media)
                          THEN [loc EXCEPT ![r].pc = "loadRaw",
                                           ![r].raw = NoRaw, ![r].i = @ + 1]
                          ELSE [loc EXCEPT ![r].pc = "Link",
                                           ![r].raw = NoRaw]
    /\ UNCHANGED <<lockFrame, lockVars, rawMap, minMap>>

\* Box.append, createFile returned nil: dst.Link = name
Link(r) ==
    /\ loc[r].pc = "Link"
    /\ loc' = [loc EXCEPT ![r].pc = "Done", ![r].d.Link = loc[r].name]
    /\ UNCHANGED <<lockFrame, lockVars, rawMap, minMap, files>>

\* Box.append, createFile returned an error: b.min.Lock() of b.Delete(src)
appendDeleteLock(r) ==
    /\ loc[r].pc = "Delete"
    /\ CanLock(locks.min)
    /\ locks' = [locks EXCEPT !.min = Locked(@, r)]
    /\ loc' = [loc EXCEPT ![r].pc = "Delete.locked"]
    /\ UNCHANGED <<lockFrame, rawMap, minMap, files>>

\* b.Delete(src): delete(b.min.src, id); b.min.Unlock()
appendDeleteUnlock(r) ==
    /\ loc[r].pc = "Delete.locked"
    /\ minMap' = Delete(minMap, loc[r].a)
    /\ locks' = [locks EXCEPT !.min = Unlocked(@)]
    /\ loc' = [loc EXCEPT ![r].pc = "Done"]
    /\ UNCHANGED <<lockFrame, rawMap, files>>

\* Box.append returns: the deferred dst.Done()
Done(r) ==
    /\ loc[r].pc = "Done"
    /\ loc' = [loc EXCEPT ![r].pc = "Return", ![r].d.n = @ - 1]
    /\ UNCHANGED <<lockFrame, lockVars, rawMap, minMap, files>>

\* Box.Open returns os.ErrPermission, or os.Open(d.Link).
Return(r) ==
    /\ loc[r].pc = "Return"
    /\ loc' = [loc EXCEPT
           ![r].pc = "returned",
           ![r].ret = IF loc[r].err # NoError
                      THEN [err |-> "ErrPermission", file |-> <<>>]
                      ELSE osOpen(files, loc[r].d.Link)]
    /\ UNCHANGED <<lockFrame, lockVars, rawMap, minMap, files>>

\* The next step of requester r.
OpenStep(r) ==
    \/ OpenToAsset(r)
    \/ LoadRLock(r)
    \/ LoadRUnlock(r)
    \/ WaitReturn(r)
    \/ Create(r)
    \/ loadRawRLock(r)
    \/ loadRawRUnlock(r)
    \/ Minified(r)
    \/ Link(r)
    \/ appendDeleteLock(r)
    \/ appendDeleteUnlock(r)
    \/ Done(r)
    \/ Return(r)

LockNext ==
    \/ storeRawLock
    \/ storeRawUnlock
    \/ minLock
    \/ StoreUnlock
    \/ DeleteUnlock
    \/ \E r \in Requesters : OpenStep(r)

SpecLocks == LockInit /\ [][LockNext]_vars

\* The processes that take the locks.
Procs == Requesters \cup {ClientId}

\* Requester r is between the os.Create of its build and the return of
\* createFile: it resolves, minifies and writes.
InBuild(r) == loc[r].pc \in {"loadRaw", "loadRaw.locked", "minify", "Link"}

\* C22: requests for different identities do not block each other: while
\* the build of r is in flight, a requester q of another identity, or one
\* that has not started, can take its next step, unless a process other
\* than r is inside a critical section of b.min or b.raw.
C22_NoCrossBlocking ==
    \A r, q \in Requesters :
        (/\ r # q
         /\ InBuild(r)
         /\ loc[q].pc # "returned"
         /\ (loc[q].pc = "idle" \/ loc[q].a # loc[r].a)) =>
            \/ ENABLED OpenStep(q)
            \/ \E p \in Procs \ {r, q} :
                   Holds(locks.min, p) \/ Holds(locks.raw, p)

\* A build of one identity is at its first fragment while a requester of
\* another identity waits on the entry it found, and nobody holds a lock.
C22_Witness ==
    \E r, q \in Requesters :
        /\ loc[r].pc = "minify" /\ loc[r].i = 1
        /\ loc[q].pc = "Wait"
        /\ loc[q].a # loc[r].a
        /\ locks = NoLocks

\* C25: no process holds the lock of the raws and the lock of the cache at
\* the same time, and a requester holds neither while it waits on a
\* Static, creates the file, resolves, minifies and writes a fragment, or
\* anywhere outside Load, loadRaw and Delete.
C25_LockDiscipline ==
    /\ \A p \in Procs : ~(Holds(locks.min, p) /\ Holds(locks.raw, p))
    /\ \A r \in Requesters :
           /\ Holds(locks.min, r) =>
                  loc[r].pc \in {"Load.locked", "Delete.locked"}
           /\ Holds(locks.raw, r) => loc[r].pc = "loadRaw.locked"
           /\ loc[r].pc \in {"Wait", "Create", "minify"} =>
                  ~Holds(locks.min, r) /\ ~Holds(locks.raw, r)

\* A requester resolves a fragment of a URL while another reads the cache
\* under the read lock and the client holds the lock of the raws.
C25_Witness ==
    \E r, q \in Requesters :
        /\ loc[r].pc = "minify" /\ loc[r].raw.kind = onlineSrc
        /\ loc[q].pc = "Load.locked" /\ q \in locks.min.r
        /\ locks.raw.w = ClientId

\* C27: the counter of the Static of a build is never negative; it is
\* lowered once, by the Done that is the last step of append before Open
\* returns, from one to zero; and append reaches that Done only from
\* dst.Link = name, every fragment written and no error, or from the
\* Delete that has removed the entry of the asset.
C27_DoneOnceAndLast ==
    [][\A r \in Requesters :
          /\ loc'[r].d.n >= 0
          /\ loc'[r].d.n < loc[r].d.n =>
                 /\ loc[r].pc = "Done" /\ loc'[r].pc = "Return"
                 /\ loc[r].d.n = 1
          /\ (loc[r].pc = "Done" /\ loc'[r].pc # "Done") =>
                 loc'[r].pc = "Return" /\ loc'[r].d.n = 0
          /\ (loc[r].pc = "Return" /\ loc'[r].pc # "Return") =>
                 loc'[r].pc = "returned" /\ loc'[r].d.n = 0
          /\ (loc[r].pc # "Done" /\ loc'[r].pc = "Done") =>
                 \/ /\ loc[r].pc = "Link"
                    /\ loc'[r].err = NoError
                    /\ loc'[r].i = Len(loc'[r].a.media)
                    /\ loc'[r].d.Link = loc'[r].name
                    /\ loc'[r].d.n = 1
                 \/ /\ loc[r].pc = "Delete.locked"
                    /\ loc'[r].err # NoError
                    /\ loc'[r].d.Link = <<>>
                    /\ CacheId(loc'[r].a) \notin DOMAIN minMap'
                    /\ loc'[r].d.n = 1]_vars

\* A build has signalled completion after setting the Link, and another
\* after deleting the entry.
C27_Witness ==
    \E r, q \in Requesters :
        /\ loc[r].pc = "Return" /\ loc[r].d.n = 0
        /\ loc[r].d.Link = loc[r].name /\ loc[r].err = NoError
        /\ loc[q].pc = "Return" /\ loc[q].d.n = 0
        /\ loc[q].err # NoError

\* The scheduling of the lock specification: a goroutine that can run does
\* run (WF on every step of Open and on the unlocks of the client), and a
\* goroutine blocked in RLock or Lock of a sync.RWMutex gets the lock if it
\* is free again and again (SF on the three acquisitions of Open: a blocked
\* Lock keeps new readers out, a waiting RLock is served after the writer).
LockFairness ==
    /\ WF_vars(storeRawUnlock)
    /\ WF_vars(StoreUnlock \/ DeleteUnlock)
    /\ \A r \in Requesters :
           /\ WF_vars(OpenStep(r))
           /\ SF_vars(LoadRLock(r))
           /\ SF_vars(loadRawRLock(r))
           /\ SF_vars(appendDeleteLock(r))

SpecLocksLive == LockInit /\ [][LockNext]_vars /\ LockFairness

Skipped(op, x) ==
    \/ op = "Add" /\ Len(x) = 0
    \/ op = "AddString" /\ TrimSpace(x) = <<>>

\* The fingerprints of the fragments a call op(args) accepts, from its
\* argument i on, in the order of the arguments: AddFile and AddURL stop at
\* the first argument they reject.
RECURSIVE AcceptedKeys(_, _, _)
AcceptedKeys(op, args, i) ==
    IF i > Len(args) \/ Rejected(op, args[i]) THEN <<>>
    ELSE IF Skipped(op, args[i]) THEN AcceptedKeys(op, args, i + 1)
    ELSE <<crc32(Payload(op, args[i]))>> \o AcceptedKeys(op, args, i + 1)

\* s is a prefix of t.
IsPrefix(s, t) == Len(s) <= Len(t) /\ SubSeq(t, 1, Len(s)) = s

\* C31: no step changes, removes or reorders a fingerprint an asset holds;
\* a call of Add, AddString, AddFile or AddURL appends to the media of its
\* asset one fingerprint for each fragment it accepts, in the order of its
\* arguments, and leaves the media of the other asset as it is; Combine
\* leaves both as they are.
C31_AppendOnly ==
    [][/\ IsPrefix(bundle.media, bundle'.media)
       /\ IsPrefix(sheet.media, sheet'.media)
       /\ cres'.op \in {"Add", "AddFile", "AddString", "AddURL"} =>
              /\ MediaAfter =
                     MediaBefore \o AcceptedKeys(cres'.op, cres'.args, 1)
              /\ cres'.t = "bundle" => sheet'.media = sheet.media
              /\ cres'.t = "sheet" => bundle'.media = bundle.media
       /\ cres'.op = "Combine" =>
              bundle'.media = bundle.media /\ sheet'.media = sheet.media]_vars

\* AddString("u", "a") on the script has appended the fingerprint of "u"
\* and then that of "a", after AddFile("f") on the stylesheet.
C31_Witness ==
    /\ cres.op = "AddString"
    /\ cres.t = "bundle"
    /\ cres.args = <<UrlU, InlineA>>
    /\ bundle.media = <<crc32(UrlU), crc32(InlineA)>>
    /\ sheet.media = <<crc32(<<"s", "/", "f">>)>>

\* The error AddFile and AddURL return for an argument they reject.
ErrorOfArg(op, x) ==
    IF op = "AddFile"
    THEN IF x \in {<<>>, <<".">>} THEN ErrUnexpectedEOF ELSE "ENOENT"
    ELSE IF TrimSpace(x) = <<>> THEN ErrUnexpectedEOF
    ELSE "missing protocol scheme"

\* The kind of the raw a call op stores.
KindOf(op) == IF op = "AddFile" THEN fileSrc ELSE onlineSrc

\* C33: a call of AddFile or AddURL with an argument it must reject
\* returns the error of the first such argument; each argument before it is
\* in the raw store, with the kind of the call and its payload, and its
\* fingerprint is in the media of the asset, in order; and neither the
\* media nor the raw store has gained anything for the rejected argument
\* or for those after it. A call with no such argument returns no error
\* and adds them all.
C33_StopsAtFirstInvalid ==
    [][cres'.op \in {"AddFile", "AddURL"} =>
          LET op == cres'.op
              args == cres'.args
              j == FirstRejected(cres')
              n == IF j = 0 THEN Len(args) ELSE j - 1
          IN  /\ cres'.err = IF j = 0 THEN Nil ELSE ErrorOfArg(op, args[j])
              /\ Len(MediaAfter) = Len(MediaBefore) + n
              /\ \A i \in 1..n :
                     LET k == MediaAfter[Len(MediaBefore) + i]
                     IN  /\ k = crc32(Payload(op, args[i]))
                         /\ k \in DOMAIN rawMap'
                         /\ rawMap'[k] = Raw(KindOf(op), Payload(op, args[i]))
              /\ \A k \in DOMAIN rawMap' \ DOMAIN rawMap :
                     \E i \in 1..n : k = crc32(Payload(op, args[i]))]_vars

\* AddURL("u", ":", "u") on the empty stylesheet has returned the error of
\* ":" with "u" added once, and the raw store holds nothing else.
C33_Witness ==
    /\ cres.op = "AddURL"
    /\ cres.t = "sheet"
    /\ cres.args = <<UrlU, <<":">>, UrlU>>
    /\ cres.err = "missing protocol scheme"
    /\ sheet.media = <<crc32(UrlU)>>
    /\ DOMAIN rawMap = {crc32(UrlU)}

(***************************************************************************)
(* The append specification: two goroutines, one for each asset of a Box,  *)
(* add fragments and look them up as Combine does, step by step.           *)
(***************************************************************************)
\* The raws that Add, AddString, AddFile and AddURL hand to append.
AppendRaws ==
    {Raw(inlineSrc, InlineA), Raw(inlineSrc, UrlU),
     Raw(fileSrc, <<"s", "/", "f">>), Raw(onlineSrc, UrlU)}

\* The goroutine that owns the asset t, as the holder of a lock.
Owner(t) == IF t = "bundle" THEN 1 ELSE 2

\* The locals of the goroutine of an asset: the raw and the key of append,
\* the answer of the last loadRaw of Combine.
AppendIdle == [pc |-> "idle", r |-> NoRaw, key |-> <<0, 0>>, ok |-> TRUE]

AppendInit ==
    /\ cin = [mode |-> "none", a |-> NoAsset, hash |-> <<>>]
    /\ cout = NoOut
    /\ rawMap = <<>>
    /\ minMap = <<>>
    /\ files = <<>>
    /\ bundle = Asset(JavaScript, <<>>)
    /\ loc = [t \in Targets |-> AppendIdle]
    /\ sheet = Asset(CSS, <<>>)
    /\ cres = NoRes
    /\ served = NoAnswered
    /\ prim = NoPrim
    /\ locks = NoLocks


\* asset.append: key, err = r.crc()
appendCrc(t) ==
    /\ loc[t].pc = "idle"
    /\ Len(AssetOf(t).media) < MaxMedia
    /\ \E r \in AppendRaws :
           loc' = [loc EXCEPT ![t].pc = "storeRaw", ![t].r = r,
                              ![t].key = rawCrc(r)]
    /\ UNCHANGED <<served, prim, locks, codecVars, minMap, files, cres,
                   rawMap, bundle, sheet>>

\* Box.storeRaw: b.raw.Lock()
appendStoreRawLock(t) ==
    /\ loc[t].pc = "storeRaw"
    /\ CanLock(locks.raw)
    /\ locks' = [locks EXCEPT !.raw = Locked(@, Owner(t))]
    /\ loc' = [loc EXCEPT ![t].pc = "storeRaw.locked"]
    /\ UNCHANGED <<served, prim, codecVars, minMap, files, cres, rawMap,
                   bundle, sheet>>

\* A storeRaw that releases the lock without writing the entry.
appendStoresNothing(t) ==
    /\ loc[t].pc = "storeRaw.locked"
    /\ rawMap' = rawMap
    /\ locks' = [locks EXCEPT !.raw = Unlocked(@)]
    /\ loc' = [loc EXCEPT ![t].pc = "media"]
    /\ UNCHANGED <<served, prim, codecVars, minMap, files, cres, bundle,
                   sheet>>

\* Box.storeRaw: b.raw.src[key] = value; b.raw.Unlock()
appendStoreRawUnlock(t) ==
    /\ loc[t].pc = "storeRaw.locked"
    /\ rawMap' = storeRaw(rawMap, loc[t].key, loc[t].r)
    /\ locks' = [locks EXCEPT !.raw = Unlocked(@)]
    /\ loc' = [loc EXCEPT ![t].pc = "media"]
    /\ UNCHANGED <<served, prim, codecVars, minMap, files, cres, bundle,
                   sheet>>

\* asset.append: a.media = append(a.media, key)
appendMedia(t) ==
    /\ loc[t].pc = "media"
    /\ bundle' = IF t = "bundle"
                 THEN [bundle EXCEPT !.media = Append(@, loc[t].key)]
                 ELSE bundle
    /\ sheet' = IF t = "sheet"
                THEN [sheet EXCEPT !.media = Append(@, loc[t].key)]
                ELSE sheet
    /\ loc' = [loc EXCEPT ![t].pc = "idle"]
    /\ UNCHANGED <<served, prim, locks, codecVars, minMap, files, cres,
                   rawMap>>

\* asset.Combine, for one fragment of the asset: Box.loadRaw takes the read
\* lock.
combineLoadRawRLock(t) ==
    /\ loc[t].pc = "idle"
    /\ CanRLock(locks.raw)
    /\ \E i \in 1..Len(AssetOf(t).media) :
           loc' = [loc EXCEPT ![t].pc = "loadRaw.locked",
                              ![t].key = AssetOf(t).media[i]]
    /\ locks' = [locks EXCEPT !.raw = RLocked(@, Owner(t))]
    /\ UNCHANGED <<served, prim, codecVars, minMap, files, cres, rawMap,
                   bundle, sheet>>

\* Box.loadRaw: value, ok = b.raw.src[key]; b.raw.RUnlock(); Combine
\* returns ErrNotFound when ok is false.
combineLoadRawRUnlock(t) ==
    /\ loc[t].pc = "loadRaw.locked"
    /\ loc' = [loc EXCEPT ![t].pc = "idle",
                          ![t].r = loadRaw(rawMap, loc[t].key).value,
                          ![t].ok = loadRaw(rawMap, loc[t].key).ok]
    /\ locks' = [locks EXCEPT !.raw = RUnlocked(@, Owner(t))]
    /\ UNCHANGED <<served, prim, codecVars, minMap, files, cres, rawMap,
                   bundle, sheet>>

AppendNext ==
    \E t \in Targets :
        \/ appendCrc(t)
        \/ appendStoreRawLock(t)
        \/ appendStoreRawUnlock(t)
        \/ appendMedia(t)
        \/ combineLoadRawRLock(t)
        \/ combineLoadRawRUnlock(t)

SpecAppend == AppendInit /\ [][AppendNext]_vars

\* C32: every fingerprint in the media of an asset has an entry in the raw
\* store, at every step of the calls of append of the two assets, and no
\* loadRaw of Combine on a fingerprint of the asset misses.
C32_MediaStored ==
    /\ \A t \in Targets :
           /\ \A i \in 1..Len(AssetOf(t).media) :
                  AssetOf(t).media[i] \in DOMAIN rawMap
           /\ loc[t].pc = "media" => loc[t].key \in DOMAIN rawMap
           /\ loc[t].ok

\* Combine of the script has found the raw of its second fragment while
\* the append of the stylesheet holds the key it has stored and has not
\* appended it yet.
C32_Witness ==
    /\ Len(bundle.media) = 2
    /\ loc["bundle"].pc = "idle"
    /\ loc["bundle"].key = bundle.media[2]
    /\ loc["bundle"].r.kind # NoRaw.kind
    /\ loc["sheet"].pc = "media"
    /\ loc["sheet"].key \notin {sheet.media[i] : i \in 1..Len(sheet.media)}

(***************************************************************************)
(* The twin specification: two Box instances, each with an asset, another  *)
(* asset beside it, its own raw store and its own build version.           *)
(***************************************************************************)
Boxes == {1, 2}

\* The calls of the client, each with one argument: bytes, a string with
\* the same bytes after TrimSpace, a file of the source directory, a file
\* it does not hold, a URL.
TwinCalls ==
    {<<"Add", <<InlineA>> >>, <<"AddString", << <<" ">> \o InlineA >> >>,
     <<"AddFile", <<FileF>> >>, <<"AddFile", <<FileX>> >>,
     <<"AddURL", <<UrlU>> >>}

\* The method op called with args on the state st of an asset and its Box.
CallOn(st, op, args) ==
    IF op = "Add" THEN Add(st, args, 1)
    ELSE IF op = "AddString" THEN AddString(st, args, 1)
    ELSE IF op = "AddFile" THEN AddFile(st, args, 1)
    ELSE AddURL(st, args, 1)

\* NewBox, and NewJS twice or NewCSS twice on it: media is the asset, other
\* the asset beside it, added the payloads given to the asset so far, token
\* and path what String and Path returned last.
NewTwin(kind, version) ==
    [kind |-> kind, media |-> <<>>, other |-> <<>>, raw |-> <<>>,
     buildVersion |-> version, added |-> <<>>, said |-> FALSE,
     token |-> <<>>, path |-> <<>>]

TwinInit ==
    /\ cin = [mode |-> "none", a |-> NoAsset, hash |-> <<>>]
    /\ cout = NoOut
    /\ rawMap = <<>>
    /\ minMap = <<>>
    /\ files = <<>>
    /\ bundle = Asset(JavaScript, <<>>)
    /\ \E kind \in MediaTypes :
           loc = [b \in Boxes |-> NewTwin(kind, <<"1">>)]
    /\ sheet = Asset(CSS, <<>>)
    /\ cres = NoRes
    /\ served = NoAnswered
    /\ prim = NoPrim
    /\ locks = NoLocks

\* What the twin actions leave alone.
twinFrame ==
    <<sideVars, codecVars, rawMap, minMap, files, bundle, sheet, cres>>

\* One of the Add methods on the asset of the Box b.
TwinAdd(b) ==
    /\ \E c \in TwinCalls :
           LET st == CallOn([media |-> loc[b].media, raw |-> loc[b].raw,
                             err |-> Nil], c[1], c[2])
           IN  /\ Len(st.media) <= MaxMedia
               /\ loc' = [loc EXCEPT
                      ![b].media = st.media,
                      ![b].raw = st.raw,
                      ![b].added =
                          IF Len(st.media) > Len(loc[b].media)
                          THEN Append(@, Payload(c[1], c[2][1]))
                          ELSE @,
                      ![b].said = FALSE,
                      ![b].token = <<>>,
                      ![b].path = <<>>]
    /\ UNCHANGED twinFrame

\* One of the Add methods on the asset beside it.
TwinAddOther(b) ==
    /\ \E c \in TwinCalls :
           LET st == CallOn([media |-> loc[b].other, raw |-> loc[b].raw,
                             err |-> Nil], c[1], c[2])
           IN  /\ Len(st.media) < MaxMedia
               /\ loc' = [loc EXCEPT ![b].other = st.media,
                                     ![b].raw = st.raw]
    /\ UNCHANGED twinFrame

\* b.UseBuildVersion(value)
TwinUseBuildVersion(b) ==
    /\ \E value \in BuildVersions :
           loc' = [loc EXCEPT ![b].buildVersion = value]
    /\ UNCHANGED twinFrame

\* A String that puts the build version of the Box before the hash, as
\* Path does.
TwinStringVersioned(b) ==
    /\ loc' = [loc EXCEPT
           ![b].said = TRUE,
           ![b].token =
               loc[b].buildVersion
                   \o assetString(Asset(loc[b].kind, loc[b].media)),
           ![b].path = assetPath(Asset(loc[b].kind, loc[b].media), <<>>,
                                 loc[b].buildVersion)]
    /\ UNCHANGED twinFrame

\* a.String() and a.Path("") on the asset of the Box b
TwinString(b) ==
    /\ loc' = [loc EXCEPT
           ![b].said = TRUE,
           ![b].token = assetString(Asset(loc[b].kind, loc[b].media)),
           ![b].path = assetPath(Asset(loc[b].kind, loc[b].media), <<>>,
                                 loc[b].buildVersion)]
    /\ UNCHANGED twinFrame

TwinNext ==
    \E b \in Boxes :
        \/ TwinAdd(b)
        \/ TwinAddOther(b)
        \/ TwinUseBuildVersion(b)
        \/ TwinString(b)

SpecTwin == TwinInit /\ [][TwinNext]_vars

=============================================================================
